---- MODULE Spec2Model ----
(***************************************************************************)
(* State-machine model of the in-memory Instagram clone API.               *)
(*                                                                         *)
(* The state is the eight module-level collections of storage.py plus the  *)
(* response of the request handled last.  Every request handler of the     *)
(* routers is one action: it runs from its first line to its return (or    *)
(* raise) without interleaving, as a synchronous FastAPI handler does in a *)
(* single-threaded run of the test client.  The handlers that race are     *)
(* also modelled access by access (see Threads below).                     *)
(*                                                                         *)
(* Identifiers: uuid.uuid4() is modelled as a per-kind sequence number     *)
(* (the n-th user gets id n), so an identifier is never minted twice and   *)
(* the numeric order of two ids of one kind is their creation order, which *)
(* is also the insertion order of the Python dicts.                        *)
(* Timestamps: datetime.utcnow().isoformat() is modelled as the value of a *)
(* non-decreasing clock that may or may not advance between two requests.  *)
(* Strings that the code inspects character by character (captions, tags,  *)
(* comment texts) are sequences of one-character strings.                  *)
(*                                                                         *)
(* hashtag_order is the insertion order of the keys of hashtag_posts, which *)
(* a Python dict keeps and explore_trending iterates in.                   *)
(*                                                                         *)
(* last is the response of the request being answered ("idle" between two  *)
(* requests).  followed and liked are history variables: the (follower,    *)
(* followee) pairs whose follow succeeded with no successful unfollow      *)
(* since, and the (user, post) pairs whose like succeeded with neither a   *)
(* successful unlike nor a successful delete of the post since.  No        *)
(* handler reads them.                                                     *)
(*                                                                         *)
(* Specifications: SpecUsers runs the user and follow handlers,            *)
(* SpecHashtags the user and post handlers, SpecContent the post, like and *)
(* comment handlers, Spec every handler, SpecFeed the user, follow and post *)
(* handlers with get_feed, SpecExplore the post handlers with the explore  *)
(* queries.  SpecContent and Spec bound the total number of identifiers    *)
(* minted in a run (MaxContentIds, MaxIds).  Smaller families run one      *)
(* group of handlers each: SpecLikes (like, unlike, get_post),             *)
(* SpecComments (add, delete and list comments), SpecCascade (the same     *)
(* without delete_comment), SpecProfile (update_user, get_user),           *)
(* SpecCounts (follows and posts with get_user), SpecEdges (follow,        *)
(* unfollow, like, unlike) and SpecRecent (posts with explore_recent).     *)
(*                                                                         *)
(* SpecIntegrity runs the handlers that create and delete records.         *)
(*                                                                         *)
(* Threads: the handlers are plain def functions, which FastAPI runs in    *)
(* the threads of a pool, and storage.py has no lock.  workers holds, for  *)
(* each of two threads, the request it serves, the point it is at and its  *)
(* local variables.  A handler run by a thread is one action per access    *)
(* to the store: each method call on a dict, set or list of the store,     *)
(* each len(), each membership test, each creation of an iterator and      *)
(* each next() of it (create_user_iter, create_user_scan, ...), so two     *)
(* requests interleave between any two accesses, inside a statement too.   *)
(* An iterator over a dict or a set of the store keeps the size it saw:    *)
(* next() raises RuntimeError once the size differs.  A dict is iterated   *)
(* in insertion order, a set in an order the program does not fix.         *)
(* A local that refers to a set or list of the store (liked_by,            *)
(* comment_list, the value of a setdefault, the list popped by             *)
(* delete_post) is kept as a reference: it follows the object while the    *)
(* store holds it and keeps the object once it is popped.  An exception    *)
(* that is not an HTTPException (KeyError, ValueError, RuntimeError) ends  *)
(* the request with status 500.                                            *)
(* SpecHandles runs create_user in threads, SpecDual the follow handlers   *)
(* and the two listings, SpecHide delete_post with get_post, SpecPartial   *)
(* create_post with get_post, SpecTyped delete_post with delete_comment,   *)
(* SpecOrphan delete_post with like_post and add_comment.  In these the    *)
(* one-action handlers set the store up, and only while no thread is       *)
(* inside a handler (Quiet).                                               *)
(*                                                                         *)
(* The body a query returns is an operator of the store (get_feed_body,    *)
(* explore_trending_body); explore_by_hashtag iterates a set, so it has a  *)
(* set of possible bodies (explore_by_hashtag_bodies).                     *)
(***************************************************************************)
EXTENDS Integers, Sequences, FiniteSets, TLC

\* ---------------------------------------------------------------- bounds
MaxUsers == 2
MaxPosts == 2
MaxComments == 3
MaxClock == 1
\* identifiers minted in a run of the content handlers / of every handler
MaxContentIds == 5
MaxIds == 3

UserIds == 1..MaxUsers
PostIds == 1..MaxPosts
CommentIds == 1..MaxComments

\* ---------------------------------------------------------------- inputs
None == "None"

Usernames == {"", "alice", "Alice"}

DisplayNames == {"A"}

UserUpdates ==
    { [display_name |-> None, bio |-> None, profile_pic_url |-> None],
      [display_name |-> "B", bio |-> None, profile_pic_url |-> "pic"] }

MediaUrls == {"m"}

MediaTypes == {"image", "gif"}

Captions ==
    { <<"a", "#">>,
      <<"#", "A", " ", "#", "b">>,
      <<"#", "a", "#", "A">> }

Texts == { <<"h", "i">>, <<" ">>, <<>> }

\* ---------------------------------------------------------------- state
VARIABLES users, posts, follows, followers, likes, comments, post_comments,
          hashtag_posts, hashtag_order, nextUid, nextPid, nextCid, clock,
          last, followed, liked, workers

store == <<users, posts, follows, followers, likes, comments, post_comments,
           hashtag_posts, hashtag_order>>

vars == <<users, posts, follows, followers, likes, comments, post_comments,
          hashtag_posts, hashtag_order, nextUid, nextPid, nextCid, clock,
          last, followed, liked, workers>>

\* ---------------------------------------------------------------- workers
\* The handlers are plain (not async) functions, which FastAPI runs in the
\* threads of a pool: two requests can be in their handlers at once, and the
\* thread that runs switches between two statements.  workers[w] is the
\* request thread w is serving: the handler (op), the statement it is at
\* (pc), its arguments and its local variables, and its response once it has
\* returned or raised (pc = "done").  Every access to the store is one
\* action; the statements before it that touch local variables only belong
\* to the same action.
\* A local variable bound to a set or list of the store is a reference (ref,
\* to a value of the dict refto): "store" while the object is the value of
\* its key, "fresh" for the default made by dict.get, "popped" while the
\* thread owner, which took the list out of the store, is still looping over
\* it (todo, ix), and "held" (with its value in held) once no other thread
\* uses the object.  it is the iterator of the loop the handler is in and cur
\* the id it returned last; user, bref, bit, fc, gc and n are the locals of
\* _build_user_out and _build_post_out; result is the list a listing builds.
Workers == {1, 2}

NoJob ==
    [op |-> "idle", pc |-> "idle", status |-> 0, uid |-> 0, tid |-> 0,
     pid |-> 0, cid |-> 0, name |-> "", payload |-> << >>, post |-> << >>,
     todo |-> << >>, ix |-> 0, ref |-> "none", refto |-> "none", owner |-> 0,
     held |-> << >>, body |-> << >>,
     it |-> [used |-> 0, pos |-> 0, len |-> 0, seen |-> {}, snap |-> {}],
     cur |-> 0, user |-> << >>, result |-> << >>, bref |-> "none",
     bit |-> [used |-> 0, pos |-> 0, len |-> 0, seen |-> {}, snap |-> {}],
     fc |-> 0, gc |-> 0, n |-> 0]

\* thread w is in handler op at statement pc
At(w, op, pc) == workers[w].op = op /\ workers[w].pc = pc

\* the handler of thread w has returned or raised: status is its response
Done(w) == workers[w].pc = "done"

\* no thread is in a handler
Quiet == \A w \in Workers : workers[w].op = "idle"

\* thread w takes the request: the handler is entered with its arguments
Accept(w, op, pc, uid, tid, pid, cid, name, payload) ==
    /\ workers[w].op = "idle"
    /\ workers' = [workers EXCEPT ![w] =
           [NoJob EXCEPT !.op = op, !.pc = pc, !.uid = uid, !.tid = tid,
                         !.pid = pid, !.cid = cid, !.name = name,
                         !.payload = payload]]

\* thread w takes a request whose payload the model validation refuses: the
\* handler is not entered
Refuse(w, op, uid, tid, pid, cid, name) ==
    /\ workers[w].op = "idle"
    /\ workers' = [workers EXCEPT ![w] =
           [NoJob EXCEPT !.op = op, !.pc = "done", !.status = 422,
                         !.uid = uid, !.tid = tid, !.pid = pid, !.cid = cid,
                         !.name = name]]

\* the response of thread w is returned to the client
Respond(w) ==
    /\ Done(w)
    /\ workers' = [workers EXCEPT ![w] = NoJob]
    /\ UNCHANGED <<store, nextUid, nextPid, nextCid, clock, last, followed, liked>>

\* thread w goes on to statement pc
Goto(w, pc) == workers' = [workers EXCEPT ![w].pc = pc]

\* thread w returns or raises with the given status
Finish(w, status) ==
    workers' = [workers EXCEPT ![w].pc = "done", ![w].status = status]

\* thread w returns the given body with status 200
Return(w, body) ==
    workers' = [workers EXCEPT ![w].pc = "done", ![w].status = 200,
                               ![w].body = body]

\* ---------------------------------------------------------------- dicts
EmptyDict == << >>

Get(d, k, default) == IF k \in DOMAIN d THEN d[k] ELSE default

SetDefault(d, k, v) == IF k \in DOMAIN d THEN d ELSE (k :> v) @@ d

Put(d, k, v) == (k :> v) @@ d

Pop(d, k) == [x \in (DOMAIN d) \ {k} |-> d[x]]

\* a removal that drops the first element of the list whatever x is
ListRemoveHead(s, x) == Tail(s)

\* list.remove(x): drops the first occurrence of x
RECURSIVE ListRemove(_, _)
ListRemove(s, x) ==
    IF s = << >> THEN << >>
    ELSE IF Head(s) = x THEN Tail(s)
    ELSE <<Head(s)>> \o ListRemove(Tail(s), x)

Range(s) == { s[i] : i \in DOMAIN s }

\* ---------------------------------------------------------------- responses
\* op and status of the request served last, with the ids (0: none) and the
\* username it was about
Response(op, status, uid, tid, pid, cid) ==
    [op |-> op, status |-> status, uid |-> uid, tid |-> tid, pid |-> pid,
     cid |-> cid, name |-> ""]

NamedResponse(op, status, uid, name) ==
    [Response(op, status, uid, 0, 0, 0) EXCEPT !.name = name]

Init ==
    /\ users = EmptyDict
    /\ posts = EmptyDict
    /\ follows = EmptyDict
    /\ followers = EmptyDict
    /\ likes = EmptyDict
    /\ comments = EmptyDict
    /\ post_comments = EmptyDict
    /\ hashtag_posts = EmptyDict
    /\ hashtag_order = << >>
    /\ nextUid = 1
    /\ nextPid = 1
    /\ nextCid = 1
    /\ clock = 0
    /\ last = Response("idle", 0, 0, 0, 0, 0)
    /\ followed = {}
    /\ liked = {}
    /\ workers = [w \in Workers |-> NoJob]

\* the wall clock advances between two requests
Tick ==
    /\ clock < MaxClock
    /\ clock' = clock + 1
    /\ UNCHANGED <<workers, store, nextUid, nextPid, nextCid, last, followed, liked>>

\* ---------------------------------------------------------------- users
UserCreateValid(username, display_name) ==
    username # "" /\ display_name # ""

\* a create_user that skips the uniqueness scan
UsernameTakenNever(username) == FALSE

\* any(u["username"] == payload.username for u in store.users.values())
UsernameTaken(username) ==
    \E u \in DOMAIN users : users[u].username = username

create_user(username, display_name) ==
    IF ~UserCreateValid(username, display_name)
    THEN /\ last' = NamedResponse("create_user", 422, 0, username)
         /\ UNCHANGED <<workers, store, nextUid, nextPid, nextCid, clock, followed, liked>>
    ELSE IF UsernameTaken(username)
    THEN /\ last' = NamedResponse("create_user", 409, 0, username)
         /\ UNCHANGED <<workers, store, nextUid, nextPid, nextCid, clock, followed, liked>>
    ELSE /\ nextUid <= MaxUsers
         /\ LET uid == nextUid
                user == [id |-> uid, username |-> username,
                         display_name |-> display_name, bio |-> "",
                         profile_pic_url |-> "", created_at |-> clock]
            IN /\ users' = Put(users, uid, user)
               /\ follows' = SetDefault(follows, uid, {})
               /\ followers' = SetDefault(followers, uid, {})
               /\ nextUid' = nextUid + 1
               /\ last' = NamedResponse("create_user", 201, uid, username)
         /\ UNCHANGED <<workers, posts, likes, comments, post_comments, hashtag_posts,
                        hashtag_order, nextPid, nextCid, clock, followed, liked>>

\* an update_user that stores every field of the payload, absent ones too
update_user_overwrites_all(user_id, payload) ==
    IF user_id \notin DOMAIN users
    THEN /\ last' = Response("update_user", 404, user_id, 0, 0, 0)
         /\ UNCHANGED <<workers, store, nextUid, nextPid, nextCid, clock, followed, liked>>
    ELSE /\ users' = [users EXCEPT
                        ![user_id] = [@ EXCEPT
                            !.display_name = payload.display_name,
                            !.bio = payload.bio,
                            !.profile_pic_url = payload.profile_pic_url]]
         /\ last' = Response("update_user", 200, user_id, 0, 0, 0)
         /\ UNCHANGED <<workers, posts, follows, followers, likes, comments,
                        post_comments, hashtag_posts, hashtag_order, nextUid,
                        nextPid, nextCid, clock, followed, liked>>

update_user(user_id, payload) ==
    IF user_id \notin DOMAIN users
    THEN /\ last' = Response("update_user", 404, user_id, 0, 0, 0)
         /\ UNCHANGED <<workers, store, nextUid, nextPid, nextCid, clock, followed, liked>>
    ELSE /\ LET u0 == users[user_id]
                u1 == IF payload.display_name # None
                      THEN [u0 EXCEPT !.display_name = payload.display_name]
                      ELSE u0
                u2 == IF payload.bio # None
                      THEN [u1 EXCEPT !.bio = payload.bio] ELSE u1
                u3 == IF payload.profile_pic_url # None
                      THEN [u2 EXCEPT !.profile_pic_url = payload.profile_pic_url]
                      ELSE u2
            IN users' = [users EXCEPT ![user_id] = u3]
         /\ last' = Response("update_user", 200, user_id, 0, 0, 0)
         /\ UNCHANGED <<workers, posts, follows, followers, likes, comments,
                        post_comments, hashtag_posts, hashtag_order, nextUid, nextPid,
                        nextCid, clock, followed, liked>>

\* ---------------------------------------------------------------- follows
\* a follow_user that upserts instead of rejecting a duplicate
AlreadyFollowingNever(following_set, target_id) == FALSE

\* target_id in following_set
AlreadyFollowing(following_set, target_id) == target_id \in following_set

\* a follow_user that forgets the reverse index
AddFollowerForgotten(fs, target_id, user_id) == fs

\* store.followers.setdefault(target_id, set()).add(user_id)
AddFollower(fs, target_id, user_id) ==
    [SetDefault(fs, target_id, {}) EXCEPT ![target_id] = @ \cup {user_id}]

\* an unfollow_user that forgets the reverse index
DiscardFollowerForgotten(fs, target_id, user_id) == fs

\* store.followers.get(target_id, set()).discard(user_id)
DiscardFollower(fs, target_id, user_id) ==
    IF target_id \in DOMAIN fs
    THEN [fs EXCEPT ![target_id] = @ \ {user_id}]
    ELSE fs

\* a follow_user that lets a user follow themselves
IsSelfFollowNever(user_id, target_id) == FALSE

\* if user_id == payload.target_id
IsSelfFollow(user_id, target_id) == user_id = target_id

follow_user(user_id, target_id) ==
    IF IsSelfFollow(user_id, target_id)
    THEN /\ last' = Response("follow_user", 400, user_id, target_id, 0, 0)
         /\ UNCHANGED <<workers, store, nextUid, nextPid, nextCid, clock, followed, liked>>
    ELSE IF user_id \notin DOMAIN users \/ target_id \notin DOMAIN users
    THEN /\ last' = Response("follow_user", 404, user_id, target_id, 0, 0)
         /\ UNCHANGED <<workers, store, nextUid, nextPid, nextCid, clock, followed, liked>>
    ELSE LET f1 == SetDefault(follows, user_id, {})
         IN IF AlreadyFollowing(f1[user_id], target_id)
            THEN /\ follows' = f1
                 /\ last' = Response("follow_user", 409, user_id, target_id, 0, 0)
                 /\ UNCHANGED <<workers, users, posts, followers, likes, comments,
                                post_comments, hashtag_posts, hashtag_order, nextUid, nextPid,
                                nextCid, clock, followed, liked>>
            ELSE /\ follows' = [f1 EXCEPT ![user_id] = @ \cup {target_id}]
                 /\ followers' = AddFollower(followers, target_id, user_id)
                 /\ last' = Response("follow_user", 201, user_id, target_id, 0, 0)
                 /\ followed' = followed \cup {<<user_id, target_id>>}
                 /\ UNCHANGED <<workers, users, posts, likes, comments, post_comments,
                                hashtag_posts, hashtag_order, nextUid, nextPid, nextCid,
                                clock, liked>>

\* an unfollow_user that accepts an edge that is not there
NotFollowingNever(following_set, target_id) == FALSE

\* if payload.target_id not in following_set
NotFollowing(following_set, target_id) == target_id \notin following_set

\* an unfollow_user that drops the key of a following set it has emptied
unfollow_user_drops_key(user_id, target_id) ==
    IF user_id \notin DOMAIN users \/ target_id \notin DOMAIN users
    THEN /\ last' = Response("unfollow_user", 404, user_id, target_id, 0, 0)
         /\ UNCHANGED <<workers, store, nextUid, nextPid, nextCid, clock, followed, liked>>
    ELSE IF NotFollowing(Get(follows, user_id, {}), target_id)
    THEN /\ last' = Response("unfollow_user", 404, user_id, target_id, 0, 0)
         /\ UNCHANGED <<workers, store, nextUid, nextPid, nextCid, clock, followed, liked>>
    ELSE /\ follows' = IF follows[user_id] = {target_id}
                       THEN Pop(follows, user_id)
                       ELSE [follows EXCEPT ![user_id] = @ \ {target_id}]
         /\ followers' = DiscardFollower(followers, target_id, user_id)
         /\ last' = Response("unfollow_user", 200, user_id, target_id, 0, 0)
         /\ followed' = followed \ {<<user_id, target_id>>}
         /\ UNCHANGED <<workers, users, posts, likes, comments, post_comments,
                        hashtag_posts, hashtag_order, nextUid, nextPid, nextCid, clock, liked>>

unfollow_user(user_id, target_id) ==
    IF user_id \notin DOMAIN users \/ target_id \notin DOMAIN users
    THEN /\ last' = Response("unfollow_user", 404, user_id, target_id, 0, 0)
         /\ UNCHANGED <<workers, store, nextUid, nextPid, nextCid, clock, followed, liked>>
    ELSE IF NotFollowing(Get(follows, user_id, {}), target_id)
    THEN /\ last' = Response("unfollow_user", 404, user_id, target_id, 0, 0)
         /\ UNCHANGED <<workers, store, nextUid, nextPid, nextCid, clock, followed, liked>>
    ELSE /\ follows' = [follows EXCEPT ![user_id] = @ \ {target_id}]
         /\ followers' = DiscardFollower(followers, target_id, user_id)
         /\ last' = Response("unfollow_user", 200, user_id, target_id, 0, 0)
         /\ followed' = followed \ {<<user_id, target_id>>}
         /\ UNCHANGED <<workers, users, posts, likes, comments, post_comments,
                        hashtag_posts, hashtag_order, nextUid, nextPid, nextCid, clock, liked>>

\* ---------------------------------------------------------------- posts
WordChars == {"a", "A", "b", "B", "_", "1"}

\* str.lower() on one character
LowerChar(c) == CASE c = "A" -> "a" [] c = "B" -> "b" [] OTHER -> c

\* str.lower()
Lower(s) == [i \in DOMAIN s |-> LowerChar(s[i])]

\* index of the last character of the run of word characters starting at i
RECURSIVE WordRunEnd(_, _)
WordRunEnd(s, i) ==
    IF i + 1 <= Len(s) /\ s[i + 1] \in WordChars
    THEN WordRunEnd(s, i + 1) ELSE i

\* _HASHTAG_RE.findall(s) for the pattern #(\w+), scanning from position i
RECURSIVE HashtagFindallFrom(_, _)
HashtagFindallFrom(s, i) ==
    IF i > Len(s) THEN << >>
    ELSE IF s[i] = "#" /\ i + 1 <= Len(s) /\ s[i + 1] \in WordChars
    THEN LET j == WordRunEnd(s, i + 1)
         IN <<SubSeq(s, i + 1, j)>> \o HashtagFindallFrom(s, j + 1)
    ELSE HashtagFindallFrom(s, i + 1)

HashtagFindall(s) == HashtagFindallFrom(s, 1)

\* the tags as the caption spells them
ExtractHashtagsRaw(caption) == HashtagFindall(caption)

\* the elements of a list in order, each at its first occurrence only
RECURSIVE FirstOccurrences(_)
FirstOccurrences(s) ==
    IF s = << >> THEN << >>
    ELSE LET r == FirstOccurrences(SubSeq(s, 1, Len(s) - 1))
         IN IF s[Len(s)] \in Range(r) THEN r ELSE Append(r, s[Len(s)])

\* a create_post that stores a repeated tag once
ExtractHashtagsUnique(caption) ==
    LET found == HashtagFindall(caption)
    IN FirstOccurrences([i \in DOMAIN found |-> Lower(found[i])])

\* [tag.lower() for tag in _HASHTAG_RE.findall(caption)]
ExtractHashtags(caption) ==
    LET found == HashtagFindall(caption)
    IN [i \in DOMAIN found |-> Lower(found[i])]

\* for tag in hashtags: hashtag_posts.setdefault(tag, set()).add(pid)
RECURSIVE IndexHashtags(_, _, _)
IndexHashtags(hp, tags, pid) ==
    IF tags = << >> THEN hp
    ELSE IndexHashtags([SetDefault(hp, Head(tags), {})
                          EXCEPT ![Head(tags)] = @ \cup {pid}],
                       Tail(tags), pid)

\* the keys of hashtag_posts in insertion order: setdefault puts a tag the
\* dict does not hold yet after the keys it holds
RECURSIVE IndexOrder(_, _)
IndexOrder(order, tags) ==
    IF tags = << >> THEN order
    ELSE IndexOrder(IF Head(tags) \in Range(order) THEN order
                    ELSE Append(order, Head(tags)),
                    Tail(tags))

\* a delete_post that leaves the hashtag index alone
DeindexPostSkipped(hp, tags, pid) == hp

\* a delete_post that empties the post-set of every tag of the post
DeindexPostClearsTag(hp, tags, pid) ==
    [t \in DOMAIN hp |-> IF t \in Range(tags) THEN {} ELSE hp[t]]

\* for tag in hashtags: tag_set = hashtag_posts.get(tag);
\*                      if tag_set: tag_set.discard(post_id)
RECURSIVE DeindexPost(_, _, _)
DeindexPost(hp, tags, pid) ==
    IF tags = << >> THEN hp
    ELSE DeindexPost(IF Head(tags) \in DOMAIN hp /\ hp[Head(tags)] # {}
                     THEN [hp EXCEPT ![Head(tags)] = @ \ {pid}]
                     ELSE hp,
                     Tail(tags), pid)

\* a delete_post that leaves the comments of the post in the comment store
PopCommentsSkipped(cs, ids) == cs

\* for comment_id in ids: comments.pop(comment_id, None)
RECURSIVE PopComments(_, _)
PopComments(cs, ids) ==
    IF ids = << >> THEN cs
    ELSE PopComments(Pop(cs, Head(ids)), Tail(ids))

\* a delete_post that keeps the like-set of the post
RemoveLikesSkipped(ls, post_id) == ls

\* store.likes.pop(post_id, None)
RemoveLikes(ls, post_id) == Pop(ls, post_id)

PostCreateValid(media_url, media_type) ==
    media_url # "" /\ media_type \in {"image", "video"}

build_post_out(post) ==
    [id |-> post.id, user_id |-> post.user_id, media_url |-> post.media_url,
     media_type |-> post.media_type, caption |-> post.caption,
     hashtags |-> post.hashtags, created_at |-> post.created_at,
     like_count |-> Cardinality(Get(likes, post.id, {})),
     comment_count |-> Len(Get(post_comments, post.id, << >>))]

\* an identifier taken from the posts ever deleted when there is one
NewPostIdRecycled ==
    IF \E p \in 1..(nextPid - 1) : p \notin DOMAIN posts
    THEN CHOOSE p \in 1..(nextPid - 1) : p \notin DOMAIN posts
    ELSE nextPid

\* str(uuid.uuid4()): an identifier no post has ever had
NewPostId == nextPid

create_post(user_id, media_url, media_type, caption) ==
    IF ~PostCreateValid(media_url, media_type)
    THEN /\ last' = Response("create_post", 422, user_id, 0, 0, 0)
         /\ UNCHANGED <<workers, store, nextUid, nextPid, nextCid, clock, followed, liked>>
    ELSE IF user_id \notin DOMAIN users
    THEN /\ last' = Response("create_post", 404, user_id, 0, 0, 0)
         /\ UNCHANGED <<workers, store, nextUid, nextPid, nextCid, clock, followed, liked>>
    ELSE /\ nextPid <= MaxPosts
         /\ LET pid == NewPostId
                hashtags == ExtractHashtags(caption)
                post == [id |-> pid, user_id |-> user_id,
                         media_url |-> media_url, media_type |-> media_type,
                         caption |-> caption, hashtags |-> hashtags,
                         created_at |-> clock]
            IN /\ posts' = Put(posts, pid, post)
               /\ likes' = SetDefault(likes, pid, {})
               /\ post_comments' = SetDefault(post_comments, pid, << >>)
               /\ hashtag_posts' = IndexHashtags(hashtag_posts, hashtags, pid)
               /\ hashtag_order' = IndexOrder(hashtag_order, hashtags)
               /\ nextPid' = nextPid + 1
               /\ last' = Response("create_post", 201, user_id, 0, pid, 0)
         /\ UNCHANGED <<workers, users, follows, followers, comments, nextUid, nextCid,
                        clock, followed, liked>>

delete_post(post_id) ==
    IF post_id \notin DOMAIN posts
    THEN /\ last' = Response("delete_post", 404, 0, 0, post_id, 0)
         /\ UNCHANGED <<workers, store, nextUid, nextPid, nextCid, clock, followed, liked>>
    ELSE /\ hashtag_posts' = DeindexPost(hashtag_posts, posts[post_id].hashtags,
                                         post_id)
         /\ hashtag_order' = hashtag_order
         /\ comments' = PopComments(comments, Get(post_comments, post_id, << >>))
         /\ post_comments' = Pop(post_comments, post_id)
         /\ likes' = RemoveLikes(likes, post_id)
         /\ posts' = Pop(posts, post_id)
         /\ last' = Response("delete_post", 200, 0, 0, post_id, 0)
         /\ liked' = { e \in liked : e[2] # post_id }
         /\ UNCHANGED <<workers, users, follows, followers, nextUid, nextPid, nextCid,
                        clock, followed>>

\* ---------------------------------------------------------------- likes
\* a like_post that upserts instead of rejecting a duplicate
AlreadyLikedNever(liked_by, user_id) == FALSE

\* payload.user_id in liked_by
AlreadyLiked(liked_by, user_id) == user_id \in liked_by

\* a like_post that looks the user up only after recording the like
like_post_write_first(post_id, user_id) ==
    IF post_id \notin DOMAIN posts
    THEN /\ last' = Response("like_post", 404, user_id, 0, post_id, 0)
         /\ UNCHANGED <<workers, store, nextUid, nextPid, nextCid, clock, followed, liked>>
    ELSE LET l1 == SetDefault(likes, post_id, {})
         IN IF AlreadyLiked(l1[post_id], user_id)
            THEN /\ likes' = l1
                 /\ last' = Response("like_post", 409, user_id, 0, post_id, 0)
                 /\ UNCHANGED <<workers, users, posts, follows, followers, comments,
                                post_comments, hashtag_posts, hashtag_order, nextUid, nextPid,
                                nextCid, clock, followed, liked>>
            ELSE /\ likes' = [l1 EXCEPT ![post_id] = @ \cup {user_id}]
                 /\ IF user_id \notin DOMAIN users
                    THEN /\ last' = Response("like_post", 404, user_id, 0,
                                             post_id, 0)
                         /\ liked' = liked
                    ELSE /\ last' = Response("like_post", 201, user_id, 0,
                                             post_id, 0)
                         /\ liked' = liked \cup {<<user_id, post_id>>}
                 /\ UNCHANGED <<workers, users, posts, follows, followers, comments,
                                post_comments, hashtag_posts, hashtag_order, nextUid, nextPid,
                                nextCid, clock, followed>>

like_post(post_id, user_id) ==
    IF post_id \notin DOMAIN posts \/ user_id \notin DOMAIN users
    THEN /\ last' = Response("like_post", 404, user_id, 0, post_id, 0)
         /\ UNCHANGED <<workers, store, nextUid, nextPid, nextCid, clock, followed, liked>>
    ELSE LET l1 == SetDefault(likes, post_id, {})
         IN IF AlreadyLiked(l1[post_id], user_id)
            THEN /\ likes' = l1
                 /\ last' = Response("like_post", 409, user_id, 0, post_id, 0)
                 /\ UNCHANGED <<workers, users, posts, follows, followers, comments,
                                post_comments, hashtag_posts, hashtag_order, nextUid, nextPid,
                                nextCid, clock, followed, liked>>
            ELSE /\ likes' = [l1 EXCEPT ![post_id] = @ \cup {user_id}]
                 /\ last' = Response("like_post", 201, user_id, 0, post_id, 0)
                 /\ liked' = liked \cup {<<user_id, post_id>>}
                 /\ UNCHANGED <<workers, users, posts, follows, followers, comments,
                                post_comments, hashtag_posts, hashtag_order, nextUid, nextPid,
                                nextCid, clock, followed>>

\* an unlike_post that answers 200 and leaves the like in the set
unlike_post_keeps_like(post_id, user_id) ==
    IF post_id \notin DOMAIN posts
    THEN /\ last' = Response("unlike_post", 404, user_id, 0, post_id, 0)
         /\ UNCHANGED <<workers, store, nextUid, nextPid, nextCid, clock, followed, liked>>
    ELSE IF user_id \notin Get(likes, post_id, {})
    THEN /\ last' = Response("unlike_post", 404, user_id, 0, post_id, 0)
         /\ UNCHANGED <<workers, store, nextUid, nextPid, nextCid, clock, followed, liked>>
    ELSE /\ last' = Response("unlike_post", 200, user_id, 0, post_id, 0)
         /\ liked' = liked \ {<<user_id, post_id>>}
         /\ UNCHANGED <<workers, store, nextUid, nextPid, nextCid, clock, followed>>

unlike_post(post_id, user_id) ==
    IF post_id \notin DOMAIN posts
    THEN /\ last' = Response("unlike_post", 404, user_id, 0, post_id, 0)
         /\ UNCHANGED <<workers, store, nextUid, nextPid, nextCid, clock, followed, liked>>
    ELSE IF user_id \notin Get(likes, post_id, {})
    THEN /\ last' = Response("unlike_post", 404, user_id, 0, post_id, 0)
         /\ UNCHANGED <<workers, store, nextUid, nextPid, nextCid, clock, followed, liked>>
    ELSE /\ likes' = [likes EXCEPT ![post_id] = @ \ {user_id}]
         /\ last' = Response("unlike_post", 200, user_id, 0, post_id, 0)
         /\ liked' = liked \ {<<user_id, post_id>>}
         /\ UNCHANGED <<workers, users, posts, follows, followers, comments,
                        post_comments, hashtag_posts, hashtag_order, nextUid, nextPid,
                        nextCid, clock, followed>>

\* ---------------------------------------------------------------- comments
Whitespace == {" "}

\* str.strip(): drop leading and trailing whitespace
RECURSIVE LStrip(_)
LStrip(s) ==
    IF s # << >> /\ Head(s) \in Whitespace THEN LStrip(Tail(s)) ELSE s

RECURSIVE RStrip(_)
RStrip(s) ==
    IF s # << >> /\ s[Len(s)] \in Whitespace
    THEN RStrip(SubSeq(s, 1, Len(s) - 1)) ELSE s

Strip(s) == RStrip(LStrip(s))

\* a validator that looks at the text without stripping it
CommentCreateValidUnstripped(text) == text # << >>

\* CommentCreate.text_must_not_be_blank
CommentCreateValid(text) == Strip(text) # << >>

\* an add_comment that puts the new comment first
PrependComment(pc, post_id, cid) ==
    [SetDefault(pc, post_id, << >>) EXCEPT ![post_id] = <<cid>> \o @]

\* store.post_comments.setdefault(post_id, []).append(cid)
AppendComment(pc, post_id, cid) ==
    [SetDefault(pc, post_id, << >>) EXCEPT ![post_id] = Append(@, cid)]

add_comment(post_id, user_id, text) ==
    IF ~CommentCreateValid(text)
    THEN /\ last' = Response("add_comment", 422, user_id, 0, post_id, 0)
         /\ UNCHANGED <<workers, store, nextUid, nextPid, nextCid, clock, followed, liked>>
    ELSE IF post_id \notin DOMAIN posts \/ user_id \notin DOMAIN users
    THEN /\ last' = Response("add_comment", 404, user_id, 0, post_id, 0)
         /\ UNCHANGED <<workers, store, nextUid, nextPid, nextCid, clock, followed, liked>>
    ELSE /\ nextCid <= MaxComments
         /\ LET cid == nextCid
                comment == [id |-> cid, user_id |-> user_id,
                            post_id |-> post_id, text |-> text,
                            created_at |-> clock]
            IN /\ comments' = Put(comments, cid, comment)
               /\ post_comments' = AppendComment(post_comments, post_id, cid)
               /\ nextCid' = nextCid + 1
               /\ last' = Response("add_comment", 201, user_id, 0, post_id, cid)
         /\ UNCHANGED <<workers, users, posts, follows, followers, likes, hashtag_posts,
                        hashtag_order, nextUid, nextPid, clock, followed, liked>>

\* a delete_comment that leaves the id in the list of the parent post
delete_comment_keeps_listed(comment_id) ==
    IF comment_id \notin DOMAIN comments
    THEN /\ last' = Response("delete_comment", 404, 0, 0, 0, comment_id)
         /\ UNCHANGED <<workers, store, nextUid, nextPid, nextCid, clock, followed, liked>>
    ELSE /\ comments' = Pop(comments, comment_id)
         /\ last' = Response("delete_comment", 200, 0, 0,
                             comments[comment_id].post_id, comment_id)
         /\ UNCHANGED <<workers, users, posts, follows, followers, likes, post_comments,
                        hashtag_posts, hashtag_order, nextUid, nextPid, nextCid,
                        clock, followed, liked>>

delete_comment(comment_id) ==
    IF comment_id \notin DOMAIN comments
    THEN /\ last' = Response("delete_comment", 404, 0, 0, 0, comment_id)
         /\ UNCHANGED <<workers, store, nextUid, nextPid, nextCid, clock, followed, liked>>
    ELSE /\ LET post_id == comments[comment_id].post_id
            IN post_comments' =
                 IF post_id \in DOMAIN post_comments
                    /\ comment_id \in Range(post_comments[post_id])
                 THEN [post_comments EXCEPT
                         ![post_id] = ListRemove(@, comment_id)]
                 ELSE post_comments
         /\ comments' = Pop(comments, comment_id)
         /\ last' = Response("delete_comment", 200, 0, 0,
                             comments[comment_id].post_id, comment_id)
         /\ UNCHANGED <<workers, users, posts, follows, followers, likes, hashtag_posts,
                        hashtag_order, nextUid, nextPid, nextCid, clock, followed, liked>>

\* ---------------------------------------------------------------- queries
\* A query handler reads the store and returns; its response body is a
\* function of the unchanged store (get_post_body and the like).
Query(op, status, uid, pid) ==
    /\ last' = Response(op, status, uid, 0, pid, 0)
    /\ UNCHANGED <<workers, store, nextUid, nextPid, nextCid, clock, followed, liked>>

get_post_status(post_id) == IF post_id \in DOMAIN posts THEN 200 ELSE 404

get_post(post_id) == Query("get_post", get_post_status(post_id), 0, post_id)

get_user(user_id) ==
    Query("get_user", IF user_id \in DOMAIN users THEN 200 ELSE 404, user_id, 0)

get_user_posts(user_id) ==
    Query("get_user_posts", IF user_id \in DOMAIN users THEN 200 ELSE 404,
          user_id, 0)

get_followers(user_id) ==
    Query("get_followers", IF user_id \in DOMAIN users THEN 200 ELSE 404,
          user_id, 0)

get_following(user_id) ==
    Query("get_following", IF user_id \in DOMAIN users THEN 200 ELSE 404,
          user_id, 0)

get_post_likes(post_id) ==
    Query("get_post_likes", IF post_id \in DOMAIN posts THEN 200 ELSE 404,
          0, post_id)

\* a get_comments that does not look the post up
get_comments_status_unchecked(post_id) == 200

\* if post_id not in store.posts: raise HTTPException(status_code=404)
get_comments_status(post_id) == IF post_id \in DOMAIN posts THEN 200 ELSE 404

get_comments(post_id) ==
    Query("get_comments", get_comments_status(post_id), 0, post_id)

\* the keys of a dict whose keys were inserted in increasing order
RECURSIVE KeysInOrder(_)
KeysInOrder(S) ==
    IF S = {} THEN << >>
    ELSE LET k == CHOOSE k \in S : \A j \in S : k <= j
         IN <<k>> \o KeysInOrder(S \ {k})

\* store.posts.values(): the posts in insertion order
PostsValues ==
    LET keys == KeysInOrder(DOMAIN posts)
    IN [i \in 1..Len(keys) |-> posts[keys[i]]]

\* a sort step that puts the older post first
InsertOldestFirst(post, sorted) ==
    LET later == { i \in 1..Len(sorted) :
                     sorted[i].created_at > post.created_at }
        at == IF later = {} THEN Len(sorted) + 1
              ELSE CHOOSE i \in later : \A j \in later : i <= j
    IN SubSeq(sorted, 1, at - 1) \o <<post>> \o SubSeq(sorted, at, Len(sorted))

\* one step of list.sort(key=created_at, reverse=True): the post goes before
\* the first post that is not newer, so equal timestamps keep their order
InsertNewestFirst(post, sorted) ==
    LET notNewer == { i \in 1..Len(sorted) :
                        sorted[i].created_at <= post.created_at }
        at == IF notNewer = {} THEN Len(sorted) + 1
              ELSE CHOOSE i \in notNewer : \A j \in notNewer : i <= j
    IN SubSeq(sorted, 1, at - 1) \o <<post>> \o SubSeq(sorted, at, Len(sorted))

\* list.sort(key=lambda p: p["created_at"], reverse=True), a stable sort
RECURSIVE SortNewestFirst(_)
SortNewestFirst(ps) ==
    IF ps = << >> THEN << >>
    ELSE InsertNewestFirst(Head(ps), SortNewestFirst(Tail(ps)))

\* [_build_post_out(p) for p in ps]
BuildPostOuts(ps) == [i \in 1..Len(ps) |-> build_post_out(ps[i])]

\* a feed that reads the followers index
FollowingIdsOfFollowers(user_id) == Get(followers, user_id, {})

\* following_ids = store.follows.get(user_id, set())
FollowingIds(user_id) == Get(follows, user_id, {})

\* a feed filter that lets every post through
InFeedAlways(post, following_ids) == TRUE

\* p["user_id"] in following_ids
InFeed(post, following_ids) == post.user_id \in following_ids

\* the list get_feed returns for an existing user
get_feed_body(user_id) ==
    LET following_ids == FollowingIds(user_id)
    IN IF following_ids = {} THEN << >>
       ELSE BuildPostOuts(SortNewestFirst(
                SelectSeq(PostsValues, LAMBDA p : InFeed(p, following_ids))))

\* a get_feed that answers 404 when the user follows nobody
get_feed_empty_is_404(user_id) ==
    Query("get_feed",
          IF user_id \in DOMAIN users /\ FollowingIds(user_id) # {}
          THEN 200 ELSE 404, user_id, 0)

get_feed(user_id) ==
    Query("get_feed", IF user_id \in DOMAIN users THEN 200 ELSE 404, user_id, 0)

\* Query(default=20, ge=1, le=100)
MinLimit == 1
MaxLimit == 100

Limits == {0, 1, 2, 101}

explore_recent(limit) ==
    Query("explore_recent",
          IF limit >= MinLimit /\ limit <= MaxLimit THEN 200 ELSE 422, 0, 0)

\* a trending filter that lets every key through
HasPostsAlways(post_ids) == TRUE

\* if post_ids
HasPosts(post_ids) == post_ids # {}

\* a count of the occurrences of the tag in the captions of its posts
TagCountsByOccurrence ==
    LET live == SelectSeq(hashtag_order,
                          LAMBDA t : HasPosts(Get(hashtag_posts, t, {})))
        Occurrences(t) ==
            LET seen == KeysInOrder({ p \in DOMAIN posts :
                                        t \in Range(posts[p].hashtags) })
                Uses(p) == Len(SelectSeq(posts[p].hashtags, LAMBDA x : x = t))
            IN IF Len(seen) = 0 THEN 0
               ELSE IF Len(seen) = 1 THEN Uses(seen[1])
               ELSE IF Len(seen) = 2 THEN Uses(seen[1]) + Uses(seen[2])
               ELSE Uses(seen[1]) + Uses(seen[2]) + Uses(seen[3])
    IN [i \in 1..Len(live) |-> [tag |-> live[i], count |-> Occurrences(live[i])]]

\* HashtagCount(tag=tag, count=len(post_ids)) for tag, post_ids in
\* store.hashtag_posts.items() if post_ids, the keys in insertion order
TagCounts ==
    LET live == SelectSeq(hashtag_order,
                          LAMBDA t : HasPosts(Get(hashtag_posts, t, {})))
    IN [i \in 1..Len(live) |->
          [tag |-> live[i], count |-> Cardinality(hashtag_posts[live[i]])]]

\* a sort step that puts the smaller count first
InsertLeastFirst(entry, sorted) ==
    LET larger == { i \in 1..Len(sorted) : sorted[i].count > entry.count }
        at == IF larger = {} THEN Len(sorted) + 1
              ELSE CHOOSE i \in larger : \A j \in larger : i <= j
    IN SubSeq(sorted, 1, at - 1) \o <<entry>> \o SubSeq(sorted, at, Len(sorted))

\* one step of list.sort(key=count, reverse=True): the entry goes before the
\* first entry whose count is not larger, so equal counts keep their order
InsertMostFirst(entry, sorted) ==
    LET notLarger == { i \in 1..Len(sorted) : sorted[i].count <= entry.count }
        at == IF notLarger = {} THEN Len(sorted) + 1
              ELSE CHOOSE i \in notLarger : \A j \in notLarger : i <= j
    IN SubSeq(sorted, 1, at - 1) \o <<entry>> \o SubSeq(sorted, at, Len(sorted))

\* counts.sort(key=lambda h: h.count, reverse=True), a stable sort
RECURSIVE SortMostFirst(_)
SortMostFirst(counts) ==
    IF counts = << >> THEN << >>
    ELSE InsertMostFirst(Head(counts), SortMostFirst(Tail(counts)))

\* counts[:10]
TrendingLimit == 10

\* the list explore_trending returns
explore_trending_body ==
    LET counts == SortMostFirst(TagCounts)
    IN SubSeq(counts, 1, IF Len(counts) < TrendingLimit THEN Len(counts)
                         ELSE TrendingLimit)

explore_trending == Query("explore_trending", 200, 0, 0)

\* a lookup under the tag as it was typed
NormalizeTagRaw(tag) == tag

\* normalized_tag = tag.lower()
NormalizeTag(tag) == Lower(tag)

\* the orders in which iterating a set can yield its elements
Enumerations(S) ==
    { e \in [1..Cardinality(S) -> S] :
        \A i \in 1..Cardinality(S) : \A j \in 1..Cardinality(S) :
            i # j => e[i] # e[j] }

\* the lists explore_by_hashtag can return: the set of post ids is iterated
\* in an order the program does not fix, and the stable sort keeps that order
\* among posts of equal timestamp
explore_by_hashtag_bodies(tag) ==
    LET post_ids == Get(hashtag_posts, NormalizeTag(tag), {})
    IN { LET found == SelectSeq(e, LAMBDA pid : pid \in DOMAIN posts)
         IN BuildPostOuts(SortNewestFirst(
                [i \in 1..Len(found) |-> posts[found[i]]]))
         : e \in Enumerations(post_ids) }

explore_by_hashtag(tag) == Query("explore_by_hashtag", 200, 0, 0)

\* ---------------------------------------------------------------- bodies
\* the PostOut get_post returns for an existing post
get_post_body(post_id) == build_post_out(posts[post_id])

\* _build_comment_out(comment)
build_comment_out(comment) ==
    [id |-> comment.id, user_id |-> comment.user_id,
     post_id |-> comment.post_id, text |-> comment.text,
     created_at |-> comment.created_at]

\* the list get_comments returns for an existing post: the comments of the
\* post's list that are still stored, in the order of the list
get_comments_body(post_id) ==
    LET stored == SelectSeq(Get(post_comments, post_id, << >>),
                            LAMBDA cid : cid \in DOMAIN comments)
    IN [i \in 1..Len(stored) |-> build_comment_out(comments[stored[i]])]

\* a profile with the two follow counts taken from each other's index
build_user_out_swapped(user) ==
    [id |-> user.id, username |-> user.username,
     display_name |-> user.display_name, bio |-> user.bio,
     profile_pic_url |-> user.profile_pic_url,
     follower_count |-> Cardinality(Get(follows, user.id, {})),
     following_count |-> Cardinality(Get(followers, user.id, {})),
     post_count |-> Cardinality({ p \in DOMAIN posts :
                                    posts[p].user_id = user.id }),
     created_at |-> user.created_at]

\* _build_user_out(user)
build_user_out(user) ==
    [id |-> user.id, username |-> user.username,
     display_name |-> user.display_name, bio |-> user.bio,
     profile_pic_url |-> user.profile_pic_url,
     follower_count |-> Cardinality(Get(followers, user.id, {})),
     following_count |-> Cardinality(Get(follows, user.id, {})),
     post_count |-> Cardinality({ p \in DOMAIN posts :
                                    posts[p].user_id = user.id }),
     created_at |-> user.created_at]

\* the UserOut get_user returns for an existing user
get_user_body(user_id) == build_user_out(users[user_id])

\* an explore that cuts the list before it sorts it
explore_recent_body_cut_first(limit) ==
    BuildPostOuts(SortNewestFirst(
        SubSeq(PostsValues, 1,
               IF Len(PostsValues) < limit THEN Len(PostsValues) ELSE limit)))

\* the list explore_recent returns for a limit it accepts
explore_recent_body(limit) ==
    LET all_posts == SortNewestFirst(PostsValues)
    IN BuildPostOuts(SubSeq(all_posts, 1,
                            IF Len(all_posts) < limit THEN Len(all_posts)
                            ELSE limit))

\* ---------------------------------------------------------------- serving
\* Requests are served one at a time: the response of a request is returned
\* to the client before the next request is read.
Idle == last.op = "idle"

Deliver ==
    /\ ~Idle
    /\ last' = Response("idle", 0, 0, 0, 0, 0)
    /\ UNCHANGED <<workers, store, nextUid, nextPid, nextCid, clock, followed, liked>>

\* number of identifiers minted so far (calls of uuid.uuid4())
Minted == (nextUid - 1) + (nextPid - 1) + (nextCid - 1)

\* ---------------------------------------------------------------- users and follows
NextUsers ==
    \/ Deliver
    \/ Idle /\ Tick
    \/ Idle /\ \E n \in Usernames, d \in DisplayNames : create_user(n, d)
    \/ Idle /\ \E u \in UserIds, p \in UserUpdates : update_user(u, p)
    \/ Idle /\ \E a \in UserIds, b \in UserIds : follow_user(a, b)
    \/ Idle /\ \E a \in UserIds, b \in UserIds : unfollow_user(a, b)
    \/ Idle /\ \E u \in UserIds : get_user(u)
    \/ Idle /\ \E u \in UserIds : get_followers(u)
    \/ Idle /\ \E u \in UserIds : get_following(u)

SpecUsers == Init /\ [][NextUsers]_vars

\* ---------------------------------------------------------------- posts and their indexes
\* The clock does not advance in this family: no handler of it reads a
\* timestamp.
ContentCaptions == { <<"#", "A", " ", "#", "b">>, <<"#", "a", "#", "A">> }

NextContent ==
    \/ Deliver
    \/ Idle /\ Minted < MaxContentIds /\ \E n \in Usernames, d \in DisplayNames : create_user(n, d)
    \/ Idle /\ Minted < MaxContentIds
            /\ \E u \in UserIds, m \in MediaUrls, t \in MediaTypes, c \in ContentCaptions :
          create_post(u, m, t, c)
    \/ Idle /\ \E p \in PostIds : delete_post(p)
    \/ Idle /\ \E p \in PostIds, u \in UserIds : like_post(p, u)
    \/ Idle /\ \E p \in PostIds, u \in UserIds : unlike_post(p, u)
    \/ Idle /\ Minted < MaxContentIds
            /\ \E p \in PostIds, u \in UserIds, t \in Texts : add_comment(p, u, t)
    \/ Idle /\ \E c \in CommentIds : delete_comment(c)
    \/ Idle /\ \E p \in PostIds : get_post(p)
    \/ Idle /\ \E p \in PostIds : get_post_likes(p)
    \/ Idle /\ \E p \in PostIds : get_comments(p)

SpecContent == Init /\ [][NextContent]_vars

\* ---------------------------------------------------------------- posts and hashtags
NextHashtags ==
    \/ Deliver
    \/ Idle /\ Tick
    \/ Idle /\ \E n \in Usernames, d \in DisplayNames : create_user(n, d)
    \/ Idle /\ \E u \in UserIds, m \in MediaUrls, t \in MediaTypes, c \in Captions :
          create_post(u, m, t, c)
    \/ Idle /\ \E p \in PostIds : delete_post(p)
    \/ Idle /\ \E p \in PostIds : get_post(p)
    \/ Idle /\ \E u \in UserIds : get_user_posts(u)

SpecHashtags == Init /\ [][NextHashtags]_vars

\* ---------------------------------------------------------------- every handler

OneCaption == { <<"#", "A", " ", "#", "b">> }

QueryTags == { <<"A">>, <<"c">> }


Next ==
    \/ Deliver
    \/ Idle /\ Tick
    \/ Idle /\ Minted < MaxIds /\ \E n \in Usernames, d \in DisplayNames : create_user(n, d)
    \/ Idle /\ \E u \in UserIds, p \in UserUpdates : update_user(u, p)
    \/ Idle /\ \E a \in UserIds, b \in UserIds : follow_user(a, b)
    \/ Idle /\ \E a \in UserIds, b \in UserIds : unfollow_user(a, b)
    \/ Idle /\ Minted < MaxIds
            /\ \E u \in UserIds, m \in MediaUrls, t \in MediaTypes, c \in OneCaption :
          create_post(u, m, t, c)
    \/ Idle /\ \E p \in PostIds : delete_post(p)
    \/ Idle /\ \E p \in PostIds, u \in UserIds : like_post(p, u)
    \/ Idle /\ \E p \in PostIds, u \in UserIds : unlike_post(p, u)
    \/ Idle /\ Minted < MaxIds
            /\ \E p \in PostIds, u \in UserIds, t \in Texts : add_comment(p, u, t)
    \/ Idle /\ \E c \in CommentIds : delete_comment(c)
    \/ Idle /\ \E p \in PostIds : get_post(p)
    \/ Idle /\ \E u \in UserIds : get_user(u)
    \/ Idle /\ \E u \in UserIds : get_user_posts(u)
    \/ Idle /\ \E u \in UserIds : get_followers(u)
    \/ Idle /\ \E u \in UserIds : get_following(u)
    \/ Idle /\ \E p \in PostIds : get_post_likes(p)
    \/ Idle /\ \E p \in PostIds : get_comments(p)
    \/ Idle /\ \E u \in UserIds : get_feed(u)
    \/ Idle /\ \E l \in Limits : explore_recent(l)
    \/ Idle /\ explore_trending
    \/ Idle /\ \E t \in QueryTags : explore_by_hashtag(t)

Spec == Init /\ [][Next]_vars

\* ------------------------------------------------------------ the feed
\* Users, follows, posts and the feed.
NextFeed ==
    \/ Deliver
    \/ Idle /\ Tick
    \/ Idle /\ \E n \in Usernames, d \in DisplayNames : create_user(n, d)
    \/ Idle /\ \E a \in UserIds, b \in UserIds : follow_user(a, b)
    \/ Idle /\ \E a \in UserIds, b \in UserIds : unfollow_user(a, b)
    \/ Idle /\ \E u \in UserIds, m \in MediaUrls, t \in MediaTypes, c \in OneCaption :
          create_post(u, m, t, c)
    \/ Idle /\ \E p \in PostIds : delete_post(p)
    \/ Idle /\ \E u \in UserIds : get_feed(u)

SpecFeed == Init /\ [][NextFeed]_vars

\* ------------------------------------------------------------ explore
\* Posts with tags in several letter cases, and enough tags in one post to
\* fill the list explore_trending cuts at ten, so that the tag of a second
\* post is cut.

\* "#Ab #AB #ab"
MixedCaseCaption ==
    <<"#", "A", "b", " ", "#", "A", "B", " ", "#", "a", "b">>

\* "#A #b #1 #_ #a1 #b1 #_1 #_b #b_ #1_"
ManyTagsCaption ==
    <<"#", "A", " ", "#", "b", " ", "#", "1", " ", "#", "_", " ",
      "#", "a", "1", " ", "#", "b", "1", " ", "#", "_", "1", " ",
      "#", "_", "b", " ", "#", "b", "_", " ", "#", "1", "_">>

\* "#a #aB #1a #1b #11 #_a"
MoreTagsCaption ==
    <<"#", "a", " ", "#", "a", "B", " ", "#", "1", "a", " ",
      "#", "1", "b", " ", "#", "1", "1", " ", "#", "_", "a">>

ExploreCaptions == {MixedCaseCaption, ManyTagsCaption, MoreTagsCaption}

ExploreTags == { <<"A", "B">>, <<"a", "b">>, <<"A">>, <<"a">>, <<"c">> }

\* one author is enough: explore does not look at who wrote a post
ExploreUsernames == {"alice"}

NextExplore ==
    \/ Deliver
    \/ Idle /\ Tick
    \/ Idle /\ \E n \in ExploreUsernames, d \in DisplayNames : create_user(n, d)
    \/ Idle /\ \E u \in UserIds, m \in MediaUrls, t \in MediaTypes,
                  c \in ExploreCaptions :
          create_post(u, m, t, c)
    \/ Idle /\ \E p \in PostIds : delete_post(p)
    \/ Idle /\ explore_trending
    \/ Idle /\ \E t \in ExploreTags : explore_by_hashtag(t)

SpecExplore == Init /\ [][NextExplore]_vars

\* ------------------------------------------------------------ likes
\* Users, posts and their likes.
NextLikes ==
    \/ Deliver
    \/ Idle /\ Minted < MaxContentIds
            /\ \E n \in Usernames, d \in DisplayNames : create_user(n, d)
    \/ Idle /\ Minted < MaxContentIds
            /\ \E u \in UserIds, m \in MediaUrls, t \in MediaTypes, c \in OneCaption :
          create_post(u, m, t, c)
    \/ Idle /\ \E p \in PostIds : delete_post(p)
    \/ Idle /\ \E p \in PostIds, u \in UserIds : like_post(p, u)
    \/ Idle /\ \E p \in PostIds, u \in UserIds : unlike_post(p, u)
    \/ Idle /\ \E p \in PostIds : get_post(p)

SpecLikes == Init /\ [][NextLikes]_vars

\* ------------------------------------------------------------ comments
\* Users, posts and their comments.
NextComments ==
    \/ Deliver
    \/ Idle /\ Minted < MaxContentIds
            /\ \E n \in Usernames, d \in DisplayNames : create_user(n, d)
    \/ Idle /\ Minted < MaxContentIds
            /\ \E u \in UserIds, m \in MediaUrls, t \in MediaTypes, c \in OneCaption :
          create_post(u, m, t, c)
    \/ Idle /\ \E p \in PostIds : delete_post(p)
    \/ Idle /\ Minted < MaxContentIds
            /\ \E p \in PostIds, u \in UserIds, t \in Texts : add_comment(p, u, t)
    \/ Idle /\ \E c \in CommentIds : delete_comment(c)
    \/ Idle /\ \E p \in PostIds : get_post(p)
    \/ Idle /\ \E p \in PostIds : get_comments(p)

SpecComments == Init /\ [][NextComments]_vars

\* ------------------------------------------------------------ cascade
\* Posts and comments with no delete_comment: a comment that is not stored
\* any more went with its post.
NextCascade ==
    \/ Deliver
    \/ Idle /\ Minted < MaxContentIds
            /\ \E n \in Usernames, d \in DisplayNames : create_user(n, d)
    \/ Idle /\ Minted < MaxContentIds
            /\ \E u \in UserIds, m \in MediaUrls, t \in MediaTypes, c \in OneCaption :
          create_post(u, m, t, c)
    \/ Idle /\ \E p \in PostIds : delete_post(p)
    \/ Idle /\ Minted < MaxContentIds
            /\ \E p \in PostIds, u \in UserIds, t \in Texts : add_comment(p, u, t)
    \/ Idle /\ \E p \in PostIds : get_post(p)
    \/ Idle /\ \E p \in PostIds : get_comments(p)

SpecCascade == Init /\ [][NextCascade]_vars

\* ------------------------------------------------------------ profiles
\* Users, their profile fields and their follows.
ProfileUpdates ==
    { [display_name |-> None, bio |-> None, profile_pic_url |-> None],
      [display_name |-> None, bio |-> "bio", profile_pic_url |-> None],
      [display_name |-> "B", bio |-> None, profile_pic_url |-> "pic"] }

NextProfile ==
    \/ Deliver
    \/ Idle /\ Tick
    \/ Idle /\ \E n \in Usernames, d \in DisplayNames : create_user(n, d)
    \/ Idle /\ \E u \in UserIds, p \in ProfileUpdates : update_user(u, p)
    \/ Idle /\ \E a \in UserIds, b \in UserIds : follow_user(a, b)
    \/ Idle /\ \E a \in UserIds, b \in UserIds : unfollow_user(a, b)
    \/ Idle /\ \E u \in UserIds : get_user(u)

SpecProfile == Init /\ [][NextProfile]_vars

\* ------------------------------------------------------------ counts
\* Users, follows and posts, and the profile that counts them.
NextCounts ==
    \/ Deliver
    \/ Idle /\ \E n \in Usernames, d \in DisplayNames : create_user(n, d)
    \/ Idle /\ \E a \in UserIds, b \in UserIds : follow_user(a, b)
    \/ Idle /\ \E a \in UserIds, b \in UserIds : unfollow_user(a, b)
    \/ Idle /\ \E u \in UserIds, m \in MediaUrls, t \in MediaTypes, c \in OneCaption :
          create_post(u, m, t, c)
    \/ Idle /\ \E p \in PostIds : delete_post(p)
    \/ Idle /\ \E u \in UserIds : get_user(u)

SpecCounts == Init /\ [][NextCounts]_vars

\* ------------------------------------------------------------ edges
\* Follow edges and like edges, made and removed.
NextEdges ==
    \/ Deliver
    \/ Idle /\ Minted < MaxIds
            /\ \E n \in Usernames, d \in DisplayNames : create_user(n, d)
    \/ Idle /\ Minted < MaxIds
            /\ \E u \in UserIds, m \in MediaUrls, t \in MediaTypes, c \in OneCaption :
          create_post(u, m, t, c)
    \/ Idle /\ \E a \in UserIds, b \in UserIds : follow_user(a, b)
    \/ Idle /\ \E a \in UserIds, b \in UserIds : unfollow_user(a, b)
    \/ Idle /\ \E p \in PostIds, u \in UserIds : like_post(p, u)
    \/ Idle /\ \E p \in PostIds, u \in UserIds : unlike_post(p, u)

SpecEdges == Init /\ [][NextEdges]_vars

\* ------------------------------------------------------------ recent
\* Posts of one author at different times, and explore_recent.
NextRecent ==
    \/ Deliver
    \/ Idle /\ Tick
    \/ Idle /\ \E n \in ExploreUsernames, d \in DisplayNames : create_user(n, d)
    \/ Idle /\ \E u \in UserIds, m \in MediaUrls, t \in MediaTypes, c \in OneCaption :
          create_post(u, m, t, c)
    \/ Idle /\ \E p \in PostIds : delete_post(p)
    \/ Idle /\ \E l \in Limits : explore_recent(l)

SpecRecent == Init /\ [][NextRecent]_vars

\* ------------------------------------------------------------ iterators
\* The iterator of a dict view (dictiterobject): the size of the dict when it
\* was made (used), the position of the entry it returned last (pos) and the
\* number of entries it has still to return (len).  The entries of a dict
\* lie in insertion order, which is the order of the sequence numbers the
\* model uses as keys; a deleted key leaves a hole.
DictIter(d) ==
    [used |-> Cardinality(DOMAIN d), pos |-> 0,
     len |-> Cardinality(DOMAIN d), seen |-> {}, snap |-> {}]

\* the keys of the entries after the position of the iterator
DictIterRest(it, d) == { k \in DOMAIN d : k > it.pos }

\* next() raises RuntimeError: 'dictionary changed size during iteration',
\* or 'dictionary keys changed during iteration' when an entry is found
\* after the last one expected
DictIterFails(it, d) ==
    \/ Cardinality(DOMAIN d) # it.used
    \/ DictIterRest(it, d) # {} /\ it.len = 0

\* the key of the entry next() returns
DictIterKey(it, d) ==
    CHOOSE k \in DictIterRest(it, d) : \A j \in DictIterRest(it, d) : k <= j

\* The iterator of a set (setiterobject): the size of the set when it was
\* made (used) and a position in the hash table.  The ids are uuid strings,
\* so the order of the table is not determined: the iterator is modelled by
\* the members it has returned (seen), and by the set it was made on (snap).
\* next() raises RuntimeError ('Set changed size during iteration') when the
\* size is not used, and otherwise returns a member it has not returned yet.
SetIter(s) ==
    [used |-> Cardinality(s), pos |-> 0, len |-> 0, seen |-> {}, snap |-> s]

\* next() can find the table exhausted: every member was returned, or a
\* member added since the iterator was made lies before its position
SetIterMayStop(it, s) ==
    \/ s \ it.seen = {}
    \/ s # it.snap /\ it.seen # {}

\* UserOut(...): src/routers/users.py lines 25-35, with the three counts
UserOut(user, follower_count, following_count, post_count) ==
    [id |-> user.id, username |-> user.username,
     display_name |-> user.display_name, bio |-> user.bio,
     profile_pic_url |-> user.profile_pic_url,
     follower_count |-> follower_count,
     following_count |-> following_count,
     post_count |-> post_count,
     created_at |-> user.created_at]

\* PostOut(...): src/routers/posts.py lines 31-41, with the two counts
PostOut(post, like_count, comment_count) ==
    [id |-> post.id, user_id |-> post.user_id, media_url |-> post.media_url,
     media_type |-> post.media_type, caption |-> post.caption,
     hashtags |-> post.hashtags, created_at |-> post.created_at,
     like_count |-> like_count, comment_count |-> comment_count]

\* ------------------------------------------------------------ threads
\* The handlers below are the handlers above run by the threads of the pool,
\* one action per access to the store: a call of a dict, set or list method,
\* len(), a membership test, the creation of an iterator and each of its
\* next() are actions of their own, and the statements between two accesses,
\* which touch local variables only, belong to the action that follows them.

\* create_user: src/routers/users.py lines 45-62
create_user_accept(w, username, display_name) ==
    /\ Idle
    /\ IF UserCreateValid(username, display_name)
       THEN Accept(w, "create_user", "iter", 0, 0, 0, 0, username,
                   [display_name |-> display_name])
       ELSE Refuse(w, "create_user", 0, 0, 0, 0, username)
    /\ UNCHANGED <<store, nextUid, nextPid, nextCid, clock, last, followed, liked>>

\* line 45, the generator expression is made: iter(store.users.values())
create_user_iter(w) ==
    /\ At(w, "create_user", "iter")
    /\ workers' = [workers EXCEPT ![w].pc = "scan", ![w].it = DictIter(users)]
    /\ UNCHANGED <<store, nextUid, nextPid, nextCid, clock, last, followed, liked>>

\* line 45, any() asks the generator for its next value: one next() of the
\* iterator and the comparison of the username; raise 409 when it matches
create_user_scan(w) ==
    /\ At(w, "create_user", "scan")
    /\ LET it == workers[w].it
       IN IF DictIterFails(it, users)
          THEN Finish(w, 500)
          ELSE IF DictIterRest(it, users) = {}
          THEN Goto(w, "insert")
          ELSE IF users[DictIterKey(it, users)].username = workers[w].name
          THEN Finish(w, 409)
          ELSE workers' = [workers EXCEPT
                   ![w].it = [it EXCEPT !.pos = DictIterKey(it, users), !.len = @ - 1]]
    /\ UNCHANGED <<store, nextUid, nextPid, nextCid, clock, last, followed, liked>>

\* uid = str(uuid.uuid4()) ... store.users[uid] = user
create_user_insert(w) ==
    /\ At(w, "create_user", "insert")
    /\ nextUid <= MaxUsers
    /\ LET uid == nextUid
           user == [id |-> uid, username |-> workers[w].name,
                    display_name |-> workers[w].payload.display_name,
                    bio |-> "", profile_pic_url |-> "", created_at |-> clock]
       IN /\ users' = Put(users, uid, user)
          /\ nextUid' = nextUid + 1
          /\ workers' = [workers EXCEPT ![w].pc = "follows", ![w].uid = uid,
                                         ![w].cur = uid, ![w].user = user]
    /\ UNCHANGED <<posts, follows, followers, likes, comments, post_comments,
                   hashtag_posts, hashtag_order, nextPid, nextCid, clock,
                   last, followed, liked>>

\* store.follows.setdefault(uid, set())
create_user_follows(w) ==
    /\ At(w, "create_user", "follows")
    /\ follows' = SetDefault(follows, workers[w].uid, {})
    /\ Goto(w, "followers")
    /\ UNCHANGED <<users, posts, followers, likes, comments, post_comments,
                   hashtag_posts, hashtag_order, nextUid, nextPid,
                   nextCid, clock, last, followed, liked>>

\* store.followers.setdefault(uid, set()); line 62 calls _build_user_out
create_user_followers(w) ==
    /\ At(w, "create_user", "followers")
    /\ followers' = SetDefault(followers, workers[w].uid, {})
    /\ Goto(w, "bu_followers_get")
    /\ UNCHANGED <<users, posts, follows, likes, comments, post_comments,
                   hashtag_posts, hashtag_order, nextUid, nextPid,
                   nextCid, clock, last, followed, liked>>

\* _build_user_out(user): src/routers/users.py lines 22-35, called by
\* create_user and by the two listings for the user workers[w].user (id cur)

\* line 32: store.followers.get(uid, set())
build_user_followers_get(w) ==
    /\ workers[w].pc = "bu_followers_get"
    /\ workers' = [workers EXCEPT
           ![w].pc = "bu_followers_len",
           ![w].bref = IF workers[w].cur \in DOMAIN followers THEN "store"
                       ELSE "fresh"]
    /\ UNCHANGED <<store, nextUid, nextPid, nextCid, clock, last, followed, liked>>

\* line 32: follower_count = len(...)
build_user_followers_len(w) ==
    /\ workers[w].pc = "bu_followers_len"
    /\ workers' = [workers EXCEPT
           ![w].pc = "bu_follows_get",
           ![w].fc = IF workers[w].bref = "store"
                     THEN Cardinality(followers[workers[w].cur]) ELSE 0]
    /\ UNCHANGED <<store, nextUid, nextPid, nextCid, clock, last, followed, liked>>

\* line 33: store.follows.get(uid, set())
build_user_follows_get(w) ==
    /\ workers[w].pc = "bu_follows_get"
    /\ workers' = [workers EXCEPT
           ![w].pc = "bu_follows_len",
           ![w].bref = IF workers[w].cur \in DOMAIN follows THEN "store"
                       ELSE "fresh"]
    /\ UNCHANGED <<store, nextUid, nextPid, nextCid, clock, last, followed, liked>>

\* line 33: following_count = len(...)
build_user_follows_len(w) ==
    /\ workers[w].pc = "bu_follows_len"
    /\ workers' = [workers EXCEPT
           ![w].pc = "bu_posts_iter",
           ![w].gc = IF workers[w].bref = "store"
                     THEN Cardinality(follows[workers[w].cur]) ELSE 0]
    /\ UNCHANGED <<store, nextUid, nextPid, nextCid, clock, last, followed, liked>>

\* line 34, the generator expression is made: iter(store.posts.values())
build_user_posts_iter(w) ==
    /\ workers[w].pc = "bu_posts_iter"
    /\ workers' = [workers EXCEPT ![w].pc = "bu_posts_next", ![w].n = 0,
                                   ![w].bit = DictIter(posts)]
    /\ UNCHANGED <<store, nextUid, nextPid, nextCid, clock, last, followed, liked>>

\* line 34, sum() asks the generator for its next value: one next() of the
\* iterator; when it is exhausted the UserOut is built, which create_user
\* returns and a listing appends to its result
build_user_posts_next(w) ==
    /\ workers[w].pc = "bu_posts_next"
    /\ LET it == workers[w].bit
           out == UserOut(workers[w].user, workers[w].fc, workers[w].gc,
                          workers[w].n)
       IN IF DictIterFails(it, posts)
          THEN Finish(w, 500)
          ELSE IF DictIterRest(it, posts) = {}
          THEN IF workers[w].op = "create_user"
               THEN workers' = [workers EXCEPT ![w].pc = "done",
                                    ![w].status = 201, ![w].body = out]
               ELSE workers' = [workers EXCEPT ![w].pc = "next",
                                    ![w].result = Append(@, out)]
          ELSE workers' = [workers EXCEPT
                   ![w].bit = [it EXCEPT !.pos = DictIterKey(it, posts), !.len = @ - 1],
                   ![w].n = IF posts[DictIterKey(it, posts)].user_id
                                  = workers[w].cur
                            THEN @ + 1 ELSE @]
    /\ UNCHANGED <<store, nextUid, nextPid, nextCid, clock, last, followed, liked>>

\* follow_user: src/routers/follows.py lines 32-47
follow_user_accept(w, user_id, target_id) ==
    /\ Idle
    /\ Accept(w, "follow_user", "self", user_id, target_id, 0, 0, "", << >>)
    /\ UNCHANGED <<store, nextUid, nextPid, nextCid, clock, last, followed, liked>>

\* if user_id == target_id: raise 400
follow_user_self(w) ==
    /\ At(w, "follow_user", "self")
    /\ IF IsSelfFollow(workers[w].uid, workers[w].tid)
       THEN Finish(w, 400)
       ELSE Goto(w, "user")
    /\ UNCHANGED <<store, nextUid, nextPid, nextCid, clock, last, followed, liked>>

\* if user_id not in store.users: raise 404
follow_user_user(w) ==
    /\ At(w, "follow_user", "user")
    /\ IF workers[w].uid \notin DOMAIN users
       THEN Finish(w, 404)
       ELSE Goto(w, "target")
    /\ UNCHANGED <<store, nextUid, nextPid, nextCid, clock, last, followed, liked>>

\* if target_id not in store.users: raise 404
follow_user_target(w) ==
    /\ At(w, "follow_user", "target")
    /\ IF workers[w].tid \notin DOMAIN users
       THEN Finish(w, 404)
       ELSE Goto(w, "setdefault")
    /\ UNCHANGED <<store, nextUid, nextPid, nextCid, clock, last, followed, liked>>

\* following_set = store.follows.setdefault(user_id, set()): a reference to
\* the set in the store, which no handler ever takes out of it
follow_user_setdefault(w) ==
    /\ At(w, "follow_user", "setdefault")
    /\ follows' = SetDefault(follows, workers[w].uid, {})
    /\ Goto(w, "already")
    /\ UNCHANGED <<users, posts, followers, likes, comments, post_comments,
                   hashtag_posts, hashtag_order, nextUid, nextPid,
                   nextCid, clock, last, followed, liked>>

\* if target_id in following_set: raise 409
follow_user_already(w) ==
    /\ At(w, "follow_user", "already")
    /\ IF AlreadyFollowing(follows[workers[w].uid], workers[w].tid)
       THEN Finish(w, 409)
       ELSE Goto(w, "add")
    /\ UNCHANGED <<store, nextUid, nextPid, nextCid, clock, last, followed, liked>>

\* following_set.add(target_id)
follow_user_add(w) ==
    /\ At(w, "follow_user", "add")
    /\ follows' = [follows EXCEPT ![workers[w].uid] = @ \cup {workers[w].tid}]
    /\ Goto(w, "reverse_setdefault")
    /\ UNCHANGED <<users, posts, followers, likes, comments, post_comments,
                   hashtag_posts, hashtag_order, nextUid, nextPid,
                   nextCid, clock, last, followed, liked>>

\* line 45: store.followers.setdefault(target_id, set())
follow_user_reverse_setdefault(w) ==
    /\ At(w, "follow_user", "reverse_setdefault")
    /\ followers' = SetDefault(followers, workers[w].tid, {})
    /\ Goto(w, "reverse_add")
    /\ UNCHANGED <<users, posts, follows, likes, comments, post_comments,
                   hashtag_posts, hashtag_order, nextUid, nextPid,
                   nextCid, clock, last, followed, liked>>

\* line 45: .add(user_id); return
follow_user_reverse_add(w) ==
    /\ At(w, "follow_user", "reverse_add")
    /\ followers' = [followers EXCEPT
           ![workers[w].tid] = @ \cup {workers[w].uid}]
    /\ followed' = followed \cup {<<workers[w].uid, workers[w].tid>>}
    /\ Finish(w, 201)
    /\ UNCHANGED <<users, posts, follows, likes, comments, post_comments,
                   hashtag_posts, hashtag_order, nextUid, nextPid,
                   nextCid, clock, last, liked>>

\* unfollow_user: src/routers/follows.py lines 58-71
unfollow_user_accept(w, user_id, target_id) ==
    /\ Idle
    /\ Accept(w, "unfollow_user", "user", user_id, target_id, 0, 0, "", << >>)
    /\ UNCHANGED <<store, nextUid, nextPid, nextCid, clock, last, followed, liked>>

\* if user_id not in store.users: raise 404
unfollow_user_user(w) ==
    /\ At(w, "unfollow_user", "user")
    /\ IF workers[w].uid \notin DOMAIN users
       THEN Finish(w, 404)
       ELSE Goto(w, "target")
    /\ UNCHANGED <<store, nextUid, nextPid, nextCid, clock, last, followed, liked>>

\* if target_id not in store.users: raise 404
unfollow_user_target(w) ==
    /\ At(w, "unfollow_user", "target")
    /\ IF workers[w].tid \notin DOMAIN users
       THEN Finish(w, 404)
       ELSE Goto(w, "get")
    /\ UNCHANGED <<store, nextUid, nextPid, nextCid, clock, last, followed, liked>>

\* following_set = store.follows.get(user_id, set()): the set in the store,
\* or a new empty set when the key is missing
unfollow_user_get(w) ==
    /\ At(w, "unfollow_user", "get")
    /\ workers' = [workers EXCEPT
           ![w].pc = "absent",
           ![w].ref = IF workers[w].uid \in DOMAIN follows THEN "store"
                      ELSE "fresh"]
    /\ UNCHANGED <<store, nextUid, nextPid, nextCid, clock, last, followed, liked>>

\* if target_id not in following_set: raise 404
unfollow_user_absent(w) ==
    /\ At(w, "unfollow_user", "absent")
    /\ IF NotFollowing(IF workers[w].ref = "store"
                       THEN follows[workers[w].uid] ELSE {}, workers[w].tid)
       THEN Finish(w, 404)
       ELSE Goto(w, "discard")
    /\ UNCHANGED <<store, nextUid, nextPid, nextCid, clock, last, followed, liked>>

\* following_set.discard(target_id)
unfollow_user_discard(w) ==
    /\ At(w, "unfollow_user", "discard")
    /\ follows' = [follows EXCEPT ![workers[w].uid] = @ \ {workers[w].tid}]
    /\ Goto(w, "reverse_get")
    /\ UNCHANGED <<users, posts, followers, likes, comments, post_comments,
                   hashtag_posts, hashtag_order, nextUid, nextPid,
                   nextCid, clock, last, followed, liked>>

\* line 69: store.followers.get(target_id, set())
unfollow_user_reverse_get(w) ==
    /\ At(w, "unfollow_user", "reverse_get")
    /\ workers' = [workers EXCEPT
           ![w].pc = "reverse_discard",
           ![w].ref = IF workers[w].tid \in DOMAIN followers THEN "store"
                      ELSE "fresh"]
    /\ UNCHANGED <<store, nextUid, nextPid, nextCid, clock, last, followed, liked>>

\* line 69: .discard(user_id); return
unfollow_user_reverse_discard(w) ==
    /\ At(w, "unfollow_user", "reverse_discard")
    /\ followers' = IF workers[w].ref = "store"
                    THEN [followers EXCEPT
                            ![workers[w].tid] = @ \ {workers[w].uid}]
                    ELSE followers
    /\ followed' = followed \ {<<workers[w].uid, workers[w].tid>>}
    /\ Finish(w, 200)
    /\ UNCHANGED <<users, posts, follows, likes, comments, post_comments,
                   hashtag_posts, hashtag_order, nextUid, nextPid,
                   nextCid, clock, last, liked>>

\* the set of ids a listing goes through: follower_ids of get_followers,
\* following_ids of get_following
ListedIds(w) ==
    IF workers[w].ref # "store" THEN {}
    ELSE IF workers[w].op = "get_followers" THEN followers[workers[w].uid]
    ELSE follows[workers[w].uid]

\* get_followers: src/routers/follows.py lines 80-89
get_followers_accept(w, user_id) ==
    /\ Idle
    /\ Accept(w, "get_followers", "user", user_id, 0, 0, 0, "", << >>)
    /\ UNCHANGED <<store, nextUid, nextPid, nextCid, clock, last, followed, liked>>

\* if user_id not in store.users: raise 404
get_followers_user(w) ==
    /\ At(w, "get_followers", "user")
    /\ IF workers[w].uid \notin DOMAIN users
       THEN Finish(w, 404)
       ELSE Goto(w, "get")
    /\ UNCHANGED <<store, nextUid, nextPid, nextCid, clock, last, followed, liked>>

\* follower_ids = store.followers.get(user_id, set()): the set in the store, or a
\* new empty set when the key is missing; result = []
get_followers_get(w) ==
    /\ At(w, "get_followers", "get")
    /\ workers' = [workers EXCEPT
           ![w].pc = "iter", ![w].result = << >>,
           ![w].ref = IF workers[w].uid \in DOMAIN followers THEN "store"
                      ELSE "fresh"]
    /\ UNCHANGED <<store, nextUid, nextPid, nextCid, clock, last, followed, liked>>

\* for fid in follower_ids: the iterator of the set is made
get_followers_iter(w) ==
    /\ At(w, "get_followers", "iter")
    /\ workers' = [workers EXCEPT ![w].pc = "next",
                                   ![w].it = SetIter(ListedIds(w))]
    /\ UNCHANGED <<store, nextUid, nextPid, nextCid, clock, last, followed, liked>>

\* for fid in follower_ids: one next() of the iterator; return result when it
\* is exhausted
get_followers_next(w) ==
    /\ At(w, "get_followers", "next")
    /\ LET it == workers[w].it
           ids == ListedIds(w)
       IN \/ /\ Cardinality(ids) # it.used
             /\ Finish(w, 500)
          \/ /\ Cardinality(ids) = it.used
             /\ SetIterMayStop(it, ids)
             /\ Return(w, workers[w].result)
          \/ /\ Cardinality(ids) = it.used
             /\ \E fid \in ids \ it.seen :
                   workers' = [workers EXCEPT
                       ![w].pc = "lookup", ![w].cur = fid,
                       ![w].it = [it EXCEPT !.seen = @ \cup {fid}]]
    /\ UNCHANGED <<store, nextUid, nextPid, nextCid, clock, last, followed, liked>>

\* user = store.users.get(fid); if user: _build_user_out(user) is called
get_followers_lookup(w) ==
    /\ At(w, "get_followers", "lookup")
    /\ IF workers[w].cur \in DOMAIN users
       THEN workers' = [workers EXCEPT ![w].pc = "bu_followers_get",
                                       ![w].user = users[workers[w].cur]]
       ELSE Goto(w, "next")
    /\ UNCHANGED <<store, nextUid, nextPid, nextCid, clock, last, followed, liked>>

\* get_following: src/routers/follows.py lines 98-107
get_following_accept(w, user_id) ==
    /\ Idle
    /\ Accept(w, "get_following", "user", user_id, 0, 0, 0, "", << >>)
    /\ UNCHANGED <<store, nextUid, nextPid, nextCid, clock, last, followed, liked>>

\* if user_id not in store.users: raise 404
get_following_user(w) ==
    /\ At(w, "get_following", "user")
    /\ IF workers[w].uid \notin DOMAIN users
       THEN Finish(w, 404)
       ELSE Goto(w, "get")
    /\ UNCHANGED <<store, nextUid, nextPid, nextCid, clock, last, followed, liked>>

\* following_ids = store.follows.get(user_id, set()): the set in the store, or a
\* new empty set when the key is missing; result = []
get_following_get(w) ==
    /\ At(w, "get_following", "get")
    /\ workers' = [workers EXCEPT
           ![w].pc = "iter", ![w].result = << >>,
           ![w].ref = IF workers[w].uid \in DOMAIN follows THEN "store"
                      ELSE "fresh"]
    /\ UNCHANGED <<store, nextUid, nextPid, nextCid, clock, last, followed, liked>>

\* for fid in following_ids: the iterator of the set is made
get_following_iter(w) ==
    /\ At(w, "get_following", "iter")
    /\ workers' = [workers EXCEPT ![w].pc = "next",
                                   ![w].it = SetIter(ListedIds(w))]
    /\ UNCHANGED <<store, nextUid, nextPid, nextCid, clock, last, followed, liked>>

\* for fid in following_ids: one next() of the iterator; return result when it
\* is exhausted
get_following_next(w) ==
    /\ At(w, "get_following", "next")
    /\ LET it == workers[w].it
           ids == ListedIds(w)
       IN \/ /\ Cardinality(ids) # it.used
             /\ Finish(w, 500)
          \/ /\ Cardinality(ids) = it.used
             /\ SetIterMayStop(it, ids)
             /\ Return(w, workers[w].result)
          \/ /\ Cardinality(ids) = it.used
             /\ \E fid \in ids \ it.seen :
                   workers' = [workers EXCEPT
                       ![w].pc = "lookup", ![w].cur = fid,
                       ![w].it = [it EXCEPT !.seen = @ \cup {fid}]]
    /\ UNCHANGED <<store, nextUid, nextPid, nextCid, clock, last, followed, liked>>

\* user = store.users.get(fid); if user: _build_user_out(user) is called
get_following_lookup(w) ==
    /\ At(w, "get_following", "lookup")
    /\ IF workers[w].cur \in DOMAIN users
       THEN workers' = [workers EXCEPT ![w].pc = "bu_followers_get",
                                       ![w].user = users[workers[w].cur]]
       ELSE Goto(w, "next")
    /\ UNCHANGED <<store, nextUid, nextPid, nextCid, clock, last, followed, liked>>

\* the set a reference to a like-set refers to (liked_by of like_post)
LikedBy(w) ==
    CASE workers[w].ref = "store" -> likes[workers[w].pid]
      [] workers[w].ref = "held" -> workers[w].held
      [] OTHER -> {}

\* the list a reference to a comment list refers to (comment_list of
\* delete_comment)
CommentList(w) ==
    CASE workers[w].ref = "store" -> post_comments[workers[w].pid]
      [] workers[w].ref = "popped" -> workers[workers[w].owner].todo
      [] workers[w].ref = "held" -> workers[w].held
      [] OTHER -> << >>

\* get_post: src/routers/posts.py lines 88-91
get_post_accept(w, post_id) ==
    /\ Idle
    /\ Accept(w, "get_post", "lookup", 0, 0, post_id, 0, "", << >>)
    /\ UNCHANGED <<store, nextUid, nextPid, nextCid, clock, last, followed, liked>>

\* post = store.posts.get(post_id); if not post: raise 404; line 91 calls
\* _build_post_out
get_post_lookup(w) ==
    /\ At(w, "get_post", "lookup")
    /\ IF workers[w].pid \in DOMAIN posts
       THEN workers' = [workers EXCEPT ![w].pc = "bp_likes_get",
                                       ![w].post = posts[workers[w].pid]]
       ELSE Finish(w, 404)
    /\ UNCHANGED <<store, nextUid, nextPid, nextCid, clock, last, followed, liked>>

\* _build_post_out(post): src/routers/posts.py lines 28-41, called by
\* get_post and create_post for the post workers[w].post (id pid)

\* line 39: store.likes.get(pid, set())
build_post_likes_get(w) ==
    /\ workers[w].pc = "bp_likes_get"
    /\ workers' = [workers EXCEPT
           ![w].pc = "bp_likes_len", ![w].refto = "likes",
           ![w].ref = IF workers[w].pid \in DOMAIN likes THEN "store"
                      ELSE "fresh"]
    /\ UNCHANGED <<store, nextUid, nextPid, nextCid, clock, last, followed, liked>>

\* line 39: like_count = len(...)
build_post_likes_len(w) ==
    /\ workers[w].pc = "bp_likes_len"
    /\ workers' = [workers EXCEPT
           ![w].pc = "bp_comments_get", ![w].ref = "none",
           ![w].refto = "none", ![w].held = << >>,
           ![w].fc = Cardinality(LikedBy(w))]
    /\ UNCHANGED <<store, nextUid, nextPid, nextCid, clock, last, followed, liked>>

\* line 40: store.post_comments.get(pid, [])
build_post_comments_get(w) ==
    /\ workers[w].pc = "bp_comments_get"
    /\ workers' = [workers EXCEPT
           ![w].pc = "bp_comments_len", ![w].refto = "post_comments",
           ![w].ref = IF workers[w].pid \in DOMAIN post_comments THEN "store"
                      ELSE "fresh"]
    /\ UNCHANGED <<store, nextUid, nextPid, nextCid, clock, last, followed, liked>>

\* line 40: comment_count = len(...); the PostOut is built, which get_post
\* returns with 200 and create_post with 201
build_post_comments_len(w) ==
    /\ workers[w].pc = "bp_comments_len"
    /\ workers' = [workers EXCEPT
           ![w].pc = "done", ![w].ref = "none", ![w].refto = "none",
           ![w].held = << >>,
           ![w].status = IF workers[w].op = "create_post" THEN 201 ELSE 200,
           ![w].body = PostOut(workers[w].post, workers[w].fc,
                               Len(CommentList(w)))]
    /\ UNCHANGED <<store, nextUid, nextPid, nextCid, clock, last, followed, liked>>

\* create_post: src/routers/posts.py lines 52-79
create_post_accept(w, user_id, media_url, media_type, caption) ==
    /\ Idle
    /\ IF PostCreateValid(media_url, media_type)
       THEN Accept(w, "create_post", "user", user_id, 0, 0, 0, "",
                   [media_url |-> media_url, media_type |-> media_type,
                    caption |-> caption])
       ELSE Refuse(w, "create_post", user_id, 0, 0, 0, "")
    /\ UNCHANGED <<store, nextUid, nextPid, nextCid, clock, last, followed, liked>>

\* if payload.user_id not in store.users: raise 404
create_post_user(w) ==
    /\ At(w, "create_post", "user")
    /\ IF workers[w].uid \notin DOMAIN users
       THEN Finish(w, 404)
       ELSE Goto(w, "insert")
    /\ UNCHANGED <<store, nextUid, nextPid, nextCid, clock, last, followed, liked>>

\* pid = str(uuid.uuid4()) ... store.posts[pid] = post
create_post_insert(w) ==
    /\ At(w, "create_post", "insert")
    /\ nextPid <= MaxPosts
    /\ LET pid == NewPostId
           hashtags == ExtractHashtags(workers[w].payload.caption)
           post == [id |-> pid, user_id |-> workers[w].uid,
                    media_url |-> workers[w].payload.media_url,
                    media_type |-> workers[w].payload.media_type,
                    caption |-> workers[w].payload.caption,
                    hashtags |-> hashtags, created_at |-> clock]
       IN /\ posts' = Put(posts, pid, post)
          /\ nextPid' = nextPid + 1
          /\ workers' = [workers EXCEPT ![w].pc = "likes", ![w].pid = pid,
                                         ![w].post = post, ![w].todo = hashtags]
    /\ UNCHANGED <<users, follows, followers, likes, comments, post_comments,
                   hashtag_posts, hashtag_order, nextUid, nextCid, clock,
                   last, followed, liked>>

\* store.likes.setdefault(pid, set())
create_post_likes(w) ==
    /\ At(w, "create_post", "likes")
    /\ likes' = SetDefault(likes, workers[w].pid, {})
    /\ Goto(w, "comments")
    /\ UNCHANGED <<users, posts, follows, followers, comments, post_comments,
                   hashtag_posts, hashtag_order, nextUid, nextPid,
                   nextCid, clock, last, followed, liked>>

\* store.post_comments.setdefault(pid, []); the loop over hashtags, a list
\* of the thread, is entered, or line 79 calls _build_post_out
create_post_comments(w) ==
    /\ At(w, "create_post", "comments")
    /\ post_comments' = SetDefault(post_comments, workers[w].pid, << >>)
    /\ Goto(w, IF workers[w].todo = << >> THEN "bp_likes_get"
               ELSE "tag_setdefault")
    /\ UNCHANGED <<users, posts, follows, followers, likes, comments,
                   hashtag_posts, hashtag_order, nextUid, nextPid,
                   nextCid, clock, last, followed, liked>>

\* line 77: store.hashtag_posts.setdefault(tag, set())
create_post_tag_setdefault(w) ==
    /\ At(w, "create_post", "tag_setdefault")
    /\ hashtag_posts' = SetDefault(hashtag_posts, Head(workers[w].todo), {})
    /\ hashtag_order' = IndexOrder(hashtag_order, <<Head(workers[w].todo)>>)
    /\ Goto(w, "tag_add")
    /\ UNCHANGED <<users, posts, follows, followers, likes, comments,
                   post_comments, nextUid, nextPid, nextCid, clock, last,
                   followed, liked>>

\* line 77: .add(pid); the next tag, or line 79 calls _build_post_out
create_post_tag_add(w) ==
    /\ At(w, "create_post", "tag_add")
    /\ hashtag_posts' = [hashtag_posts EXCEPT
           ![Head(workers[w].todo)] = @ \cup {workers[w].pid}]
    /\ workers' = [workers EXCEPT
           ![w].todo = Tail(@),
           ![w].pc = IF Tail(workers[w].todo) = << >> THEN "bp_likes_get"
                     ELSE "tag_setdefault"]
    /\ UNCHANGED <<users, posts, follows, followers, likes, comments,
                   post_comments, hashtag_order, nextUid, nextPid,
                   nextCid, clock, last, followed, liked>>

\* delete_post: src/routers/posts.py lines 119-139
delete_post_accept(w, post_id) ==
    /\ Idle
    /\ Accept(w, "delete_post", "lookup", 0, 0, post_id, 0, "", << >>)
    /\ UNCHANGED <<store, nextUid, nextPid, nextCid, clock, last, followed, liked>>

\* post = store.posts.get(post_id); if not post: raise 404; the loop over
\* post.get("hashtags", []) is entered
delete_post_lookup(w) ==
    /\ At(w, "delete_post", "lookup")
    /\ IF workers[w].pid \in DOMAIN posts
       THEN workers' = [workers EXCEPT
               ![w].pc = IF posts[workers[w].pid].hashtags = << >>
                         THEN "pop_comments" ELSE "tag_get",
               ![w].post = posts[workers[w].pid],
               ![w].todo = posts[workers[w].pid].hashtags]
       ELSE Finish(w, 404)
    /\ UNCHANGED <<store, nextUid, nextPid, nextCid, clock, last, followed, liked>>

\* the tag loop of thread w goes on to its next tag, or ends
delete_post_next_tag(w) ==
    workers' = [workers EXCEPT
        ![w].todo = Tail(@),
        ![w].pc = IF Tail(workers[w].todo) = << >> THEN "pop_comments"
                  ELSE "tag_get"]

\* line 125: tag_set = store.hashtag_posts.get(tag); None is not true
delete_post_tag_get(w) ==
    /\ At(w, "delete_post", "tag_get")
    /\ IF Head(workers[w].todo) \in DOMAIN hashtag_posts
       THEN Goto(w, "tag_truth")
       ELSE delete_post_next_tag(w)
    /\ UNCHANGED <<store, nextUid, nextPid, nextCid, clock, last, followed, liked>>

\* line 126: if tag_set (an empty set is not true)
delete_post_tag_truth(w) ==
    /\ At(w, "delete_post", "tag_truth")
    /\ IF hashtag_posts[Head(workers[w].todo)] # {}
       THEN Goto(w, "tag_discard")
       ELSE delete_post_next_tag(w)
    /\ UNCHANGED <<store, nextUid, nextPid, nextCid, clock, last, followed, liked>>

\* line 127: tag_set.discard(post_id)
delete_post_tag_discard(w) ==
    /\ At(w, "delete_post", "tag_discard")
    /\ hashtag_posts' = [hashtag_posts EXCEPT
           ![Head(workers[w].todo)] = @ \ {workers[w].pid}]
    /\ delete_post_next_tag(w)
    /\ UNCHANGED <<users, posts, follows, followers, likes, comments,
                   post_comments, hashtag_order, nextUid, nextPid,
                   nextCid, clock, last, followed, liked>>

\* line 130: store.post_comments.pop(post_id, []) and the iterator of the
\* list.  The list leaves the store: the other thread, when it holds a
\* reference to it, now shares it with this thread only.
delete_post_pop_comments(w) ==
    /\ At(w, "delete_post", "pop_comments")
    /\ post_comments' = Pop(post_comments, workers[w].pid)
    /\ workers' = [v \in Workers |->
           IF v = w
           THEN [workers[w] EXCEPT
                   !.pc = "comment_next", !.ix = 0,
                   !.todo = Get(post_comments, workers[w].pid, << >>)]
           ELSE IF /\ workers[v].refto = "post_comments"
                   /\ workers[v].ref = "store"
                   /\ workers[v].pid = workers[w].pid
                THEN [workers[v] EXCEPT !.ref = "popped", !.owner = w]
                ELSE workers[v]]
    /\ UNCHANGED <<users, posts, follows, followers, likes, comments,
                   hashtag_posts, hashtag_order, nextUid, nextPid,
                   nextCid, clock, last, followed, liked>>

\* line 130: one next() of the iterator, which goes through the list by
\* position; when it is exhausted this thread drops the list
delete_post_comment_next(w) ==
    /\ At(w, "delete_post", "comment_next")
    /\ IF workers[w].ix < Len(workers[w].todo)
       THEN workers' = [workers EXCEPT
               ![w].pc = "comment_pop", ![w].ix = @ + 1,
               ![w].cid = workers[w].todo[workers[w].ix + 1]]
       ELSE workers' = [v \in Workers |->
               IF v = w
               THEN [workers[w] EXCEPT !.pc = "pop_likes"]
               ELSE IF workers[v].ref = "popped" /\ workers[v].owner = w
                    THEN [workers[v] EXCEPT !.ref = "held",
                                            !.held = workers[w].todo]
                    ELSE workers[v]]
    /\ UNCHANGED <<store, nextUid, nextPid, nextCid, clock, last, followed, liked>>

\* line 131: store.comments.pop(comment_id, None)
delete_post_comment_pop(w) ==
    /\ At(w, "delete_post", "comment_pop")
    /\ comments' = PopComments(comments, <<workers[w].cid>>)
    /\ Goto(w, "comment_next")
    /\ UNCHANGED <<users, posts, follows, followers, likes, post_comments,
                   hashtag_posts, hashtag_order, nextUid, nextPid,
                   nextCid, clock, last, followed, liked>>

\* line 134: store.likes.pop(post_id, None).  The like-set leaves the store:
\* the other thread, when it holds a reference to it, is the only one left
\* to use it.
delete_post_pop_likes(w) ==
    /\ At(w, "delete_post", "pop_likes")
    /\ likes' = RemoveLikes(likes, workers[w].pid)
    /\ workers' = [v \in Workers |->
           IF v = w
           THEN [workers[w] EXCEPT !.pc = "record"]
           ELSE IF /\ workers[v].refto = "likes"
                   /\ workers[v].ref = "store"
                   /\ workers[v].pid = workers[w].pid
                   /\ workers[w].pid \in DOMAIN likes
                THEN [workers[v] EXCEPT !.ref = "held",
                                        !.held = likes[workers[w].pid]]
                ELSE workers[v]]
    /\ UNCHANGED <<users, posts, follows, followers, comments, post_comments,
                   hashtag_posts, hashtag_order, nextUid, nextPid,
                   nextCid, clock, last, followed, liked>>

\* del store.posts[post_id] (KeyError when the key is gone: the request ends
\* with 500); return
delete_post_record(w) ==
    /\ At(w, "delete_post", "record")
    /\ IF workers[w].pid \in DOMAIN posts
       THEN /\ posts' = Pop(posts, workers[w].pid)
            /\ liked' = { e \in liked : e[2] # workers[w].pid }
            /\ Finish(w, 200)
       ELSE /\ posts' = posts
            /\ liked' = liked
            /\ Finish(w, 500)
    /\ UNCHANGED <<users, follows, followers, likes, comments, post_comments,
                   hashtag_posts, hashtag_order, nextUid, nextPid,
                   nextCid, clock, last, followed>>

\* like_post: src/routers/likes.py lines 30-40
like_post_accept(w, post_id, user_id) ==
    /\ Idle
    /\ Accept(w, "like_post", "post", user_id, 0, post_id, 0, "", << >>)
    /\ UNCHANGED <<store, nextUid, nextPid, nextCid, clock, last, followed, liked>>

\* if post_id not in store.posts: raise 404
like_post_post(w) ==
    /\ At(w, "like_post", "post")
    /\ IF workers[w].pid \notin DOMAIN posts
       THEN Finish(w, 404)
       ELSE Goto(w, "user")
    /\ UNCHANGED <<store, nextUid, nextPid, nextCid, clock, last, followed, liked>>

\* if payload.user_id not in store.users: raise 404
like_post_user(w) ==
    /\ At(w, "like_post", "user")
    /\ IF workers[w].uid \notin DOMAIN users
       THEN Finish(w, 404)
       ELSE Goto(w, "setdefault")
    /\ UNCHANGED <<store, nextUid, nextPid, nextCid, clock, last, followed, liked>>

\* liked_by = store.likes.setdefault(post_id, set())
like_post_setdefault(w) ==
    /\ At(w, "like_post", "setdefault")
    /\ likes' = SetDefault(likes, workers[w].pid, {})
    /\ workers' = [workers EXCEPT ![w].pc = "already", ![w].ref = "store",
                                   ![w].refto = "likes"]
    /\ UNCHANGED <<users, posts, follows, followers, comments, post_comments,
                   hashtag_posts, hashtag_order, nextUid, nextPid,
                   nextCid, clock, last, followed, liked>>

\* if payload.user_id in liked_by: raise 409
like_post_already(w) ==
    /\ At(w, "like_post", "already")
    /\ IF AlreadyLiked(LikedBy(w), workers[w].uid)
       THEN Finish(w, 409)
       ELSE Goto(w, "add")
    /\ UNCHANGED <<store, nextUid, nextPid, nextCid, clock, last, followed, liked>>

\* liked_by.add(payload.user_id); return
like_post_add(w) ==
    /\ At(w, "like_post", "add")
    /\ IF workers[w].ref = "store"
       THEN /\ likes' = [likes EXCEPT ![workers[w].pid] = @ \cup {workers[w].uid}]
            /\ liked' = liked \cup {<<workers[w].uid, workers[w].pid>>}
            /\ Finish(w, 201)
       ELSE /\ likes' = likes
            /\ liked' = liked
            /\ workers' = [workers EXCEPT
                   ![w].pc = "done", ![w].status = 201,
                   ![w].held = @ \cup {workers[w].uid}]
    /\ UNCHANGED <<users, posts, follows, followers, comments, post_comments,
                   hashtag_posts, hashtag_order, nextUid, nextPid,
                   nextCid, clock, last, followed>>

\* add_comment: src/routers/comments.py lines 42-59
add_comment_accept(w, post_id, user_id, text) ==
    /\ Idle
    /\ IF CommentCreateValid(text)
       THEN Accept(w, "add_comment", "post", user_id, 0, post_id, 0, "",
                   [text |-> text])
       ELSE Refuse(w, "add_comment", user_id, 0, post_id, 0, "")
    /\ UNCHANGED <<store, nextUid, nextPid, nextCid, clock, last, followed, liked>>

\* if post_id not in store.posts: raise 404
add_comment_post(w) ==
    /\ At(w, "add_comment", "post")
    /\ IF workers[w].pid \notin DOMAIN posts
       THEN Finish(w, 404)
       ELSE Goto(w, "user")
    /\ UNCHANGED <<store, nextUid, nextPid, nextCid, clock, last, followed, liked>>

\* if payload.user_id not in store.users: raise 404
add_comment_user(w) ==
    /\ At(w, "add_comment", "user")
    /\ IF workers[w].uid \notin DOMAIN users
       THEN Finish(w, 404)
       ELSE Goto(w, "insert")
    /\ UNCHANGED <<store, nextUid, nextPid, nextCid, clock, last, followed, liked>>

\* cid = str(uuid.uuid4()) ... store.comments[cid] = comment
add_comment_insert(w) ==
    /\ At(w, "add_comment", "insert")
    /\ nextCid <= MaxComments
    /\ LET cid == nextCid
           comment == [id |-> cid, user_id |-> workers[w].uid,
                       post_id |-> workers[w].pid,
                       text |-> workers[w].payload.text, created_at |-> clock]
       IN /\ comments' = Put(comments, cid, comment)
          /\ nextCid' = nextCid + 1
          /\ workers' = [workers EXCEPT ![w].pc = "setdefault", ![w].cid = cid]
    /\ UNCHANGED <<users, posts, follows, followers, likes, post_comments,
                   hashtag_posts, hashtag_order, nextUid, nextPid, clock,
                   last, followed, liked>>

\* line 57: store.post_comments.setdefault(post_id, []), a reference to the
\* list in the store
add_comment_setdefault(w) ==
    /\ At(w, "add_comment", "setdefault")
    /\ post_comments' = SetDefault(post_comments, workers[w].pid, << >>)
    /\ workers' = [workers EXCEPT ![w].pc = "append", ![w].ref = "store",
                                   ![w].refto = "post_comments"]
    /\ UNCHANGED <<users, posts, follows, followers, likes, comments,
                   hashtag_posts, hashtag_order, nextUid, nextPid,
                   nextCid, clock, last, followed, liked>>

\* line 57: .append(cid), to the list the reference refers to, in the store
\* or not; return _build_comment_out(comment)
add_comment_append(w) ==
    /\ At(w, "add_comment", "append")
    /\ CASE workers[w].ref = "store" ->
              /\ post_comments' = [post_comments EXCEPT
                     ![workers[w].pid] = Append(@, workers[w].cid)]
              /\ Finish(w, 201)
         [] workers[w].ref = "popped" ->
              /\ post_comments' = post_comments
              /\ workers' = [workers EXCEPT
                     ![w].pc = "done", ![w].status = 201,
                     ![workers[w].owner].todo = Append(@, workers[w].cid)]
         [] OTHER ->
              /\ post_comments' = post_comments
              /\ workers' = [workers EXCEPT
                     ![w].pc = "done", ![w].status = 201,
                     ![w].held = Append(@, workers[w].cid)]
    /\ UNCHANGED <<users, posts, follows, followers, likes, comments,
                   hashtag_posts, hashtag_order, nextUid, nextPid,
                   nextCid, clock, last, followed, liked>>

\* delete_comment: src/routers/comments.py lines 88-99
delete_comment_accept(w, comment_id) ==
    /\ Idle
    /\ Accept(w, "delete_comment", "lookup", 0, 0, 0, comment_id, "", << >>)
    /\ UNCHANGED <<store, nextUid, nextPid, nextCid, clock, last, followed, liked>>

\* comment = store.comments.get(comment_id); if not comment: raise 404;
\* post_id = comment["post_id"]
delete_comment_lookup(w) ==
    /\ At(w, "delete_comment", "lookup")
    /\ IF workers[w].cid \in DOMAIN comments
       THEN workers' = [workers EXCEPT
               ![w].pc = "get", ![w].pid = comments[workers[w].cid].post_id]
       ELSE Finish(w, 404)
    /\ UNCHANGED <<store, nextUid, nextPid, nextCid, clock, last, followed, liked>>

\* comment_list = store.post_comments.get(post_id, [])
delete_comment_get(w) ==
    /\ At(w, "delete_comment", "get")
    /\ workers' = [workers EXCEPT
           ![w].pc = "listed", ![w].refto = "post_comments",
           ![w].ref = IF workers[w].pid \in DOMAIN post_comments THEN "store"
                      ELSE "fresh"]
    /\ UNCHANGED <<store, nextUid, nextPid, nextCid, clock, last, followed, liked>>

\* if comment_id in comment_list
delete_comment_listed(w) ==
    /\ At(w, "delete_comment", "listed")
    /\ IF workers[w].cid \in Range(CommentList(w))
       THEN Goto(w, "remove")
       ELSE Goto(w, "del")
    /\ UNCHANGED <<store, nextUid, nextPid, nextCid, clock, last, followed, liked>>

\* comment_list.remove(comment_id) (ValueError when the id is not in the
\* list: the request ends with 500)
delete_comment_remove(w) ==
    /\ At(w, "delete_comment", "remove")
    /\ IF workers[w].cid \notin Range(CommentList(w))
       THEN /\ Finish(w, 500)
            /\ post_comments' = post_comments
       ELSE CASE workers[w].ref = "store" ->
                   /\ post_comments' =
                         [post_comments EXCEPT ![workers[w].pid] =
                             ListRemove(@, workers[w].cid)]
                   /\ Goto(w, "del")
              [] workers[w].ref = "popped" ->
                   /\ post_comments' = post_comments
                   /\ workers' = [workers EXCEPT
                         ![w].pc = "del",
                         ![workers[w].owner].todo = ListRemove(@, workers[w].cid)]
              [] OTHER ->
                   /\ post_comments' = post_comments
                   /\ workers' = [workers EXCEPT
                         ![w].pc = "del",
                         ![w].held = ListRemove(@, workers[w].cid)]
    /\ UNCHANGED <<users, posts, follows, followers, likes, comments,
                   hashtag_posts, hashtag_order, nextUid, nextPid,
                   nextCid, clock, last, followed, liked>>

\* del store.comments[comment_id] (KeyError when the key is gone: the request
\* ends with 500); return
delete_comment_del(w) ==
    /\ At(w, "delete_comment", "del")
    /\ IF workers[w].cid \in DOMAIN comments
       THEN /\ comments' = Pop(comments, workers[w].cid)
            /\ Finish(w, 200)
       ELSE /\ comments' = comments
            /\ Finish(w, 500)
    /\ UNCHANGED <<users, posts, follows, followers, likes, post_comments,
                   hashtag_posts, hashtag_order, nextUid, nextPid,
                   nextCid, clock, last, followed, liked>>

\* ------------------------------------------------------------ handles
\* Two threads registering users.
NextHandles ==
    \/ \E w \in Workers, n \in Usernames, d \in DisplayNames :
          create_user_accept(w, n, d)
    \/ \E w \in Workers : create_user_iter(w)
    \/ \E w \in Workers : create_user_scan(w)
    \/ \E w \in Workers : create_user_insert(w)
    \/ \E w \in Workers : create_user_follows(w)
    \/ \E w \in Workers : create_user_followers(w)
    \/ \E w \in Workers : build_user_followers_get(w)
    \/ \E w \in Workers : build_user_followers_len(w)
    \/ \E w \in Workers : build_user_follows_get(w)
    \/ \E w \in Workers : build_user_follows_len(w)
    \/ \E w \in Workers : build_user_posts_iter(w)
    \/ \E w \in Workers : build_user_posts_next(w)
    \/ \E w \in Workers : Respond(w)

SpecHandles == Init /\ [][NextHandles]_vars

\* ------------------------------------------------------------ dual write
\* Two threads following, unfollowing and listing, over users registered
\* while no thread was in a handler.
NextDual ==
    \/ Deliver
    \/ Idle /\ Quiet
            /\ \E n \in Usernames, d \in DisplayNames : create_user(n, d)
    \/ \E w \in Workers, a \in UserIds, b \in UserIds : follow_user_accept(w, a, b)
    \/ \E w \in Workers : follow_user_self(w)
    \/ \E w \in Workers : follow_user_user(w)
    \/ \E w \in Workers : follow_user_target(w)
    \/ \E w \in Workers : follow_user_setdefault(w)
    \/ \E w \in Workers : follow_user_already(w)
    \/ \E w \in Workers : follow_user_add(w)
    \/ \E w \in Workers : follow_user_reverse_setdefault(w)
    \/ \E w \in Workers : follow_user_reverse_add(w)
    \/ \E w \in Workers, a \in UserIds, b \in UserIds : unfollow_user_accept(w, a, b)
    \/ \E w \in Workers : unfollow_user_user(w)
    \/ \E w \in Workers : unfollow_user_target(w)
    \/ \E w \in Workers : unfollow_user_get(w)
    \/ \E w \in Workers : unfollow_user_absent(w)
    \/ \E w \in Workers : unfollow_user_discard(w)
    \/ \E w \in Workers : unfollow_user_reverse_get(w)
    \/ \E w \in Workers : unfollow_user_reverse_discard(w)
    \/ \E w \in Workers, u \in UserIds : get_followers_accept(w, u)
    \/ \E w \in Workers : get_followers_user(w)
    \/ \E w \in Workers : get_followers_get(w)
    \/ \E w \in Workers : get_followers_iter(w)
    \/ \E w \in Workers : get_followers_next(w)
    \/ \E w \in Workers : get_followers_lookup(w)
    \/ \E w \in Workers, u \in UserIds : get_following_accept(w, u)
    \/ \E w \in Workers : get_following_user(w)
    \/ \E w \in Workers : get_following_get(w)
    \/ \E w \in Workers : get_following_iter(w)
    \/ \E w \in Workers : get_following_next(w)
    \/ \E w \in Workers : get_following_lookup(w)
    \/ \E w \in Workers : build_user_followers_get(w)
    \/ \E w \in Workers : build_user_followers_len(w)
    \/ \E w \in Workers : build_user_follows_get(w)
    \/ \E w \in Workers : build_user_follows_len(w)
    \/ \E w \in Workers : build_user_posts_iter(w)
    \/ \E w \in Workers : build_user_posts_next(w)
    \/ \E w \in Workers : Respond(w)

SpecDual == Init /\ [][NextDual]_vars

\* ------------------------------------------------------------ hiding
\* Two threads deleting and fetching posts that were created, liked and
\* commented while no thread was in a handler.
NextHide ==
    \/ Deliver
    \/ Idle /\ Quiet /\ Minted < MaxIds
            /\ \E n \in ExploreUsernames, d \in DisplayNames : create_user(n, d)
    \/ Idle /\ Quiet /\ Minted < MaxIds
            /\ \E u \in UserIds, m \in MediaUrls, t \in MediaTypes, c \in OneCaption :
          create_post(u, m, t, c)
    \/ Idle /\ Quiet /\ \E p \in PostIds, u \in UserIds : like_post(p, u)
    \/ Idle /\ Quiet /\ Minted < MaxIds
            /\ \E p \in PostIds, u \in UserIds, t \in Texts : add_comment(p, u, t)
    \/ \E w \in Workers, p \in PostIds : delete_post_accept(w, p)
    \/ \E w \in Workers : delete_post_lookup(w)
    \/ \E w \in Workers : delete_post_tag_get(w)
    \/ \E w \in Workers : delete_post_tag_truth(w)
    \/ \E w \in Workers : delete_post_tag_discard(w)
    \/ \E w \in Workers : delete_post_pop_comments(w)
    \/ \E w \in Workers : delete_post_comment_next(w)
    \/ \E w \in Workers : delete_post_comment_pop(w)
    \/ \E w \in Workers : delete_post_pop_likes(w)
    \/ \E w \in Workers : delete_post_record(w)
    \/ \E w \in Workers, p \in PostIds : get_post_accept(w, p)
    \/ \E w \in Workers : get_post_lookup(w)
    \/ \E w \in Workers : build_post_likes_get(w)
    \/ \E w \in Workers : build_post_likes_len(w)
    \/ \E w \in Workers : build_post_comments_get(w)
    \/ \E w \in Workers : build_post_comments_len(w)
    \/ \E w \in Workers : Respond(w)

SpecHide == Init /\ [][NextHide]_vars

\* ------------------------------------------------------------ partial posts
\* Two threads creating and fetching posts, for users registered while no
\* thread was in a handler.
NextPartial ==
    \/ Deliver
    \/ Idle /\ Quiet
            /\ \E n \in ExploreUsernames, d \in DisplayNames : create_user(n, d)
    \/ \E w \in Workers, u \in UserIds, m \in MediaUrls, t \in MediaTypes,
          c \in OneCaption : create_post_accept(w, u, m, t, c)
    \/ \E w \in Workers : create_post_user(w)
    \/ \E w \in Workers : create_post_insert(w)
    \/ \E w \in Workers : create_post_likes(w)
    \/ \E w \in Workers : create_post_comments(w)
    \/ \E w \in Workers : create_post_tag_setdefault(w)
    \/ \E w \in Workers : create_post_tag_add(w)
    \/ \E w \in Workers, p \in PostIds : get_post_accept(w, p)
    \/ \E w \in Workers : get_post_lookup(w)
    \/ \E w \in Workers : build_post_likes_get(w)
    \/ \E w \in Workers : build_post_likes_len(w)
    \/ \E w \in Workers : build_post_comments_get(w)
    \/ \E w \in Workers : build_post_comments_len(w)
    \/ \E w \in Workers : Respond(w)

SpecPartial == Init /\ [][NextPartial]_vars

\* ------------------------------------------------------------ typed failures
\* Two threads deleting posts and comments that were created while no thread
\* was in a handler.
NextTyped ==
    \/ Deliver
    \/ Idle /\ Quiet /\ Minted < MaxContentIds
            /\ \E n \in ExploreUsernames, d \in DisplayNames : create_user(n, d)
    \/ Idle /\ Quiet /\ Minted < MaxContentIds
            /\ \E u \in UserIds, m \in MediaUrls, t \in MediaTypes, c \in OneCaption :
          create_post(u, m, t, c)
    \/ Idle /\ Quiet /\ Minted < MaxContentIds
            /\ \E p \in PostIds, u \in UserIds, t \in Texts : add_comment(p, u, t)
    \/ \E w \in Workers, p \in PostIds : delete_post_accept(w, p)
    \/ \E w \in Workers : delete_post_lookup(w)
    \/ \E w \in Workers : delete_post_tag_get(w)
    \/ \E w \in Workers : delete_post_tag_truth(w)
    \/ \E w \in Workers : delete_post_tag_discard(w)
    \/ \E w \in Workers : delete_post_pop_comments(w)
    \/ \E w \in Workers : delete_post_comment_next(w)
    \/ \E w \in Workers : delete_post_comment_pop(w)
    \/ \E w \in Workers : delete_post_pop_likes(w)
    \/ \E w \in Workers : delete_post_record(w)
    \/ \E w \in Workers, c \in CommentIds : delete_comment_accept(w, c)
    \/ \E w \in Workers : delete_comment_lookup(w)
    \/ \E w \in Workers : delete_comment_get(w)
    \/ \E w \in Workers : delete_comment_listed(w)
    \/ \E w \in Workers : delete_comment_remove(w)
    \/ \E w \in Workers : delete_comment_del(w)
    \/ \E w \in Workers : Respond(w)

SpecTyped == Init /\ [][NextTyped]_vars

\* ------------------------------------------------------------ orphans
\* Two threads deleting, liking and commenting posts that were created while
\* no thread was in a handler.
NextOrphan ==
    \/ Deliver
    \/ Idle /\ Quiet /\ Minted < MaxIds
            /\ \E n \in ExploreUsernames, d \in DisplayNames : create_user(n, d)
    \/ Idle /\ Quiet /\ Minted < MaxIds
            /\ \E u \in UserIds, m \in MediaUrls, t \in MediaTypes, c \in OneCaption :
          create_post(u, m, t, c)
    \/ \E w \in Workers, p \in PostIds : delete_post_accept(w, p)
    \/ \E w \in Workers : delete_post_lookup(w)
    \/ \E w \in Workers : delete_post_tag_get(w)
    \/ \E w \in Workers : delete_post_tag_truth(w)
    \/ \E w \in Workers : delete_post_tag_discard(w)
    \/ \E w \in Workers : delete_post_pop_comments(w)
    \/ \E w \in Workers : delete_post_comment_next(w)
    \/ \E w \in Workers : delete_post_comment_pop(w)
    \/ \E w \in Workers : delete_post_pop_likes(w)
    \/ \E w \in Workers : delete_post_record(w)
    \/ \E w \in Workers, p \in PostIds, u \in UserIds : like_post_accept(w, p, u)
    \/ \E w \in Workers : like_post_post(w)
    \/ \E w \in Workers : like_post_user(w)
    \/ \E w \in Workers : like_post_setdefault(w)
    \/ \E w \in Workers : like_post_already(w)
    \/ \E w \in Workers : like_post_add(w)
    \/ Minted < MaxIds
       /\ \E w \in Workers, p \in PostIds, u \in UserIds, t \in Texts :
             add_comment_accept(w, p, u, t)
    \/ \E w \in Workers : add_comment_post(w)
    \/ \E w \in Workers : add_comment_user(w)
    \/ \E w \in Workers : add_comment_insert(w)
    \/ \E w \in Workers : add_comment_setdefault(w)
    \/ \E w \in Workers : add_comment_append(w)
    \/ \E w \in Workers : Respond(w)

SpecOrphan == Init /\ [][NextOrphan]_vars

\* ------------------------------------------------------------ integrity
\* Every handler that stores or removes a reference to a user or a post.
NextIntegrity ==
    \/ Deliver
    \/ Idle /\ Minted < MaxContentIds
            /\ \E n \in ExploreUsernames, d \in DisplayNames : create_user(n, d)
    \/ Idle /\ Minted < MaxContentIds
            /\ \E u \in UserIds, m \in MediaUrls, t \in MediaTypes, c \in OneCaption :
          create_post(u, m, t, c)
    \/ Idle /\ \E p \in PostIds : delete_post(p)
    \/ Idle /\ \E p \in PostIds, u \in UserIds : like_post(p, u)
    \/ Idle /\ \E p \in PostIds, u \in UserIds : unlike_post(p, u)
    \/ Idle /\ Minted < MaxContentIds
            /\ \E p \in PostIds, u \in UserIds, t \in Texts : add_comment(p, u, t)
    \/ Idle /\ \E c \in CommentIds : delete_comment(c)

SpecIntegrity == Init /\ [][NextIntegrity]_vars
\* ================================================================ claims
\* ---------------------------------------------------------------- C1
\* C1: in every state reached by create-user, follow and unfollow requests,
\* for all users a and b, b is in follows[a] iff a is in followers[b].
FollowSymmetry ==
    \A a \in UserIds, b \in UserIds :
        (b \in Get(follows, a, {})) <=> (a \in Get(followers, b, {}))

\* an unfollow has succeeded and another follow edge is still in place
FollowSymmetryWitness ==
    /\ last.op = "unfollow_user" /\ last.status = 200
    /\ \E a \in DOMAIN follows : follows[a] # {}

\* ---------------------------------------------------------------- C7
\* C7: right after follow(a,b) succeeds, b is in following-of(a) and a is in
\* followers-of(b); right after unfollow(a,b) succeeds, neither holds.
FollowPostcondition ==
    /\ (last.op = "follow_user" /\ last.status = 201) =>
          /\ last.uid # last.tid
          /\ {last.uid, last.tid} \subseteq DOMAIN users
          /\ last.tid \in Get(follows, last.uid, {})
          /\ last.uid \in Get(followers, last.tid, {})
    /\ (last.op = "unfollow_user" /\ last.status = 200) =>
          /\ last.tid \notin Get(follows, last.uid, {})
          /\ last.uid \notin Get(followers, last.tid, {})

\* an unfollow of an edge has just succeeded (the follow succeeded before it)
FollowPostconditionWitness ==
    /\ last.op = "unfollow_user" /\ last.status = 200
    /\ followed = {}

\* ---------------------------------------------------------------- C8
\* C8: a follow(a,b) made while an earlier follow(a,b) has succeeded and no
\* unfollow(a,b) has succeeded since fails with 409 and changes neither
\* follow index.
DuplicateFollowRejected ==
    [][(last'.op = "follow_user" /\ <<last'.uid, last'.tid>> \in followed)
          => /\ last'.status = 409
             /\ follows' = follows
             /\ followers' = followers]_vars

\* a repeated follow has just been rejected
DuplicateFollowWitness ==
    /\ last.op = "follow_user" /\ last.status = 409
    /\ <<last.uid, last.tid>> \in followed

\* ---------------------------------------------------------------- C10
\* C10: no two distinct users ever have the same username (compared case
\* sensitively), and a create-user request with a username that an existing
\* user holds fails with 409, creating no user and no follow-index entry.
HandleUniqueness ==
    /\ [](\A u1 \in DOMAIN users, u2 \in DOMAIN users :
             u1 # u2 => users[u1].username # users[u2].username)
    /\ [][(last'.op = "create_user"
           /\ \E u \in DOMAIN users : users[u].username = last'.name)
            => /\ last'.status = 409
               /\ UNCHANGED <<users, follows, followers, nextUid>>]_vars

\* two users whose names differ only in case exist, and a request for a
\* name already taken has just been rejected
HandleUniquenessWitness ==
    /\ last.op = "create_user" /\ last.status = 409
    /\ Cardinality(DOMAIN users) = 2
    /\ \E u \in DOMAIN users : users[u].username = last.name
\* ---------------------------------------------------------------- C2
\* C2: in every state reached by create-post and delete-post requests, for
\* every tag t and post id p, p is in hashtag_posts[t] iff post p exists and
\* t occurs in p's stored hashtag list.
KnownTags ==
    (DOMAIN hashtag_posts)
        \cup UNION { Range(posts[p].hashtags) : p \in DOMAIN posts }

HashtagIndexConsistency ==
    \A t \in KnownTags, p \in PostIds :
        (p \in Get(hashtag_posts, t, {}))
            <=> (p \in DOMAIN posts /\ t \in Range(posts[p].hashtags))

\* a post has been deleted, leaving one tag without posts while another
\* post is still indexed
HashtagIndexWitness ==
    /\ last.op = "delete_post" /\ last.status = 200
    /\ \E t \in DOMAIN hashtag_posts : hashtag_posts[t] = {}
    /\ \E t \in DOMAIN hashtag_posts : hashtag_posts[t] # {}

\* ---------------------------------------------------------------- C3
\* C3: in every state reached by add-comment, delete-comment and delete-post
\* requests, post_comments[p] holds exactly the ids of the existing comments
\* whose parent is p, each once, in the order the comments were created
\* (comment ids are minted in increasing order).
CommentSequenceConsistency ==
    \A p \in PostIds :
        LET seq == Get(post_comments, p, << >>)
        IN /\ Range(seq) = { c \in DOMAIN comments : comments[c].post_id = p }
           /\ \A i \in DOMAIN seq, j \in DOMAIN seq : i < j => seq[i] < seq[j]

\* the middle one of three comments of a post has been deleted
CommentSequenceWitness ==
    /\ last.op = "delete_comment" /\ last.status = 200
    /\ \E p \in DOMAIN post_comments : post_comments[p] = <<1, 3>>

\* ---------------------------------------------------------------- C4
\* C4: between requests a like-set key and a comment-sequence key exist for
\* post id p iff post p exists; create-post makes both, empty; delete-post
\* removes both; like, unlike, add-comment and delete-comment leave the sets
\* of keys as they are.
AuxiliaryIndexLifetime ==
    /\ DOMAIN likes = DOMAIN posts
    /\ DOMAIN post_comments = DOMAIN posts
    /\ (last.op = "create_post" /\ last.status = 201) =>
          /\ last.pid \in DOMAIN posts
          /\ Get(likes, last.pid, {0}) = {}
          /\ Get(post_comments, last.pid, <<0>>) = << >>
    /\ (last.op = "delete_post" /\ last.status = 200) =>
          /\ last.pid \notin DOMAIN likes
          /\ last.pid \notin DOMAIN post_comments

\* a post was deleted while another post holds a like and a comment
AuxiliaryIndexWitness ==
    /\ last.op = "delete_post" /\ last.status = 200
    /\ \E p \in DOMAIN posts : likes[p] # {} /\ post_comments[p] # << >>

\* ---------------------------------------------------------------- C5
\* C5: right after deletePost(p) succeeds, getPost(p) answers 404, no tag's
\* post-set contains p, no stored comment has parent p, and neither a
\* like-set nor a comment sequence is stored for p.
CascadeCompleteness ==
    (last.op = "delete_post" /\ last.status = 200) =>
        /\ get_post_status(last.pid) = 404
        /\ \A t \in DOMAIN hashtag_posts : last.pid \notin hashtag_posts[t]
        /\ \A c \in DOMAIN comments : comments[c].post_id # last.pid
        /\ last.pid \notin DOMAIN likes
        /\ last.pid \notin DOMAIN post_comments

\* the only post ever created has been deleted after it was tagged, liked
\* and commented on, and no comment was deleted on its own
CascadeWitness ==
    /\ last.op = "delete_post" /\ last.status = 200
    /\ nextPid = 2 /\ nextCid = 3 /\ comments = << >>
    /\ \E t \in DOMAIN hashtag_posts : hashtag_posts[t] = {}

\* ---------------------------------------------------------------- C6
\* C6: a request that ends in an error status leaves every storage
\* collection exactly as it was before the request.
FailureAtomicity ==
    [][last'.status >= 400 => UNCHANGED store]_vars

\* a duplicate like has just been rejected
FailureAtomicityWitness ==
    /\ last.op = "like_post" /\ last.status = 409
    /\ last.uid \in likes[last.pid]

\* ---------------------------------------------------------------- C9
\* C9: a like(u,p) made while an earlier like(u,p) has succeeded and neither
\* unlike(u,p) nor deletePost(p) has succeeded since fails with 409 and
\* leaves the like-set of p unchanged.
DuplicateLikeRejected ==
    [][(last'.op = "like_post" /\ <<last'.uid, last'.pid>> \in liked)
          => /\ last'.status = 409
             /\ likes' = likes]_vars

\* a repeated like has just been rejected
DuplicateLikeWitness ==
    /\ last.op = "like_post" /\ last.status = 409
    /\ <<last.uid, last.pid>> \in liked
\* C11: once delete_post(p) or delete_comment(c) has succeeded, the
\* identifier never again resolves to a live entity: the response of the
\* delete leaves it absent, and no later operation (create_post, add_comment,
\* like_post, create_user, ...) brings an identifier that was handed out and
\* is absent back into posts or comments.
NoResurrection ==
    /\ []((last.op = "delete_post" /\ last.status = 200)
            => last.pid \notin DOMAIN posts)
    /\ []((last.op = "delete_comment" /\ last.status = 200)
            => last.cid \notin DOMAIN comments)
    /\ [][/\ \A p \in 1..(nextPid - 1) :
               p \notin DOMAIN posts => p \notin DOMAIN posts'
          /\ \A c \in 1..(nextCid - 1) :
               c \notin DOMAIN comments => c \notin DOMAIN comments']_vars

\* a post is created after an earlier post and its comment were deleted
NoResurrectionWitness ==
    /\ last.op = "create_post" /\ last.status = 201
    /\ \E p \in 1..(nextPid - 1) : p < last.pid /\ p \notin DOMAIN posts
    /\ \E c \in 1..(nextCid - 1) : c \notin DOMAIN comments

\* C12: the feed of a user contains no post that user wrote.
FeedSelfExclusion ==
    \A u \in DOMAIN users :
        \A i \in 1..Len(get_feed_body(u)) : get_feed_body(u)[i].user_id # u

\* a user who wrote a post and follows an author gets a feed with a post in it
FeedSelfExclusionWitness ==
    /\ last.op = "get_feed" /\ last.status = 200
    /\ \E p \in DOMAIN posts : posts[p].user_id = last.uid
    /\ get_feed_body(last.uid) # << >>

\* C13: the feed of U holds exactly the existing posts whose author U
\* follows, each once, a post with a later creation timestamp before a post
\* with an earlier one.
FeedContent ==
    \A u \in DOMAIN users :
        LET feed == get_feed_body(u)
            due == { p \in DOMAIN posts : posts[p].user_id \in follows[u] }
        IN /\ { feed[i].id : i \in 1..Len(feed) } = due
           /\ Len(feed) = Cardinality(due)
           /\ \A i \in 1..Len(feed) : \A j \in 1..Len(feed) :
                 i < j => feed[i].created_at >= feed[j].created_at

\* a feed of two posts created at different times is returned
FeedContentWitness ==
    /\ last.op = "get_feed" /\ last.status = 200
    /\ Len(get_feed_body(last.uid)) = 2
    /\ get_feed_body(last.uid)[1].created_at
          > get_feed_body(last.uid)[2].created_at

\* C14: from a successful unfollow(a, b) until a later successful
\* follow(a, b), the feed of a holds no post of b, and it is the empty list
\* when a follows nobody else.  followed holds the pairs whose last successful
\* follow has no successful unfollow after it, so the pairs outside it are
\* those unfollowed and not followed again, and those never followed.
UnfollowEmptiesFeed ==
    \A a \in DOMAIN users : \A b \in DOMAIN users :
        <<a, b>> \notin followed
        => /\ \A i \in 1..Len(get_feed_body(a)) :
                get_feed_body(a)[i].user_id # b
           /\ (\A c \in DOMAIN users : <<a, c>> \notin followed)
                => get_feed_body(a) = << >>

\* a has just unfollowed b, the only user a followed, and b has a post
UnfollowEmptiesFeedWitness ==
    /\ last.op = "unfollow_user" /\ last.status = 200
    /\ \E p \in DOMAIN posts : posts[p].user_id = last.tid
    /\ follows[last.uid] = {}
    /\ get_feed_body(last.uid) = << >>

\* C15: get_feed(U) answers 404 exactly when U is not an existing user; for
\* an existing user who follows nobody it answers 200 with the empty list.
FeedErrors ==
    last.op = "get_feed"
    => /\ last.status \in {200, 404}
       /\ last.status = 404 <=> last.uid \notin DOMAIN users
       /\ (last.uid \in DOMAIN users /\ follows[last.uid] = {})
            => last.status = 200 /\ get_feed_body(last.uid) = << >>

\* the feed of an existing user who follows nobody is asked for while there
\* are posts
FeedErrorsWitness ==
    /\ last.op = "get_feed" /\ last.uid \in DOMAIN users
    /\ follows[last.uid] = {}
    /\ posts # EmptyDict

\* the existing posts whose hashtag list contains tag
Carriers(tag) == { p \in DOMAIN posts : tag \in Range(posts[p].hashtags) }

\* the tags of the entries of a trending list
TrendingTags(entries) == { entries[i].tag : i \in 1..Len(entries) }

\* C16: explore_trending has no entry for a tag that no existing post
\* carries, and no entry of count 0, although the key of such a tag stays in
\* hashtag_posts.
TrendingNoDeadTag ==
    \A body \in {explore_trending_body} :
        /\ \A i \in 1..Len(body) :
              body[i].count > 0 /\ Carriers(body[i].tag) # {}
        /\ \A t \in DOMAIN hashtag_posts :
              Carriers(t) = {} => t \notin TrendingTags(body)

\* trending is asked while a post carries a tag and the only post of another
\* tag is deleted, its key left behind
TrendingNoDeadTagWitness ==
    /\ last.op = "explore_trending"
    /\ explore_trending_body # << >>
    /\ \E t \in DOMAIN hashtag_posts : hashtag_posts[t] = {}

\* C17: explore_trending returns at most 10 entries, one for a tag; the count
\* of an entry is the number of existing posts whose hashtag list contains
\* its tag; counts do not increase along the list; and no tag left out has a
\* larger count than a tag in the list.
TrendingResult ==
    \A body \in {explore_trending_body} :
       /\ Len(body) <= 10
       /\ \A i \in 1..Len(body) : \A j \in 1..Len(body) :
             /\ i # j => body[i].tag # body[j].tag
             /\ i < j => body[i].count >= body[j].count
       /\ \A i \in 1..Len(body) :
             body[i].count = Cardinality(Carriers(body[i].tag))
       /\ \A t \in DOMAIN hashtag_posts :
             (Carriers(t) # {} /\ t \notin TrendingTags(body))
             => /\ Len(body) = 10
                /\ \A i \in 1..Len(body) :
                      Cardinality(Carriers(t)) <= body[i].count

\* trending is asked while more than 10 tags are carried: the list is cut at
\* 10 entries, of unequal counts, and a carried tag is left out
TrendingResultWitness ==
    /\ last.op = "explore_trending"
    /\ Len(explore_trending_body) = 10
    /\ explore_trending_body[1].count > explore_trending_body[10].count
    /\ \E t \in DOMAIN hashtag_posts :
          Carriers(t) # {} /\ t \notin TrendingTags(explore_trending_body)

\* two tags that differ at most in the case of their letters
SameIgnoringCase(s, t) ==
    /\ Len(s) = Len(t)
    /\ \A i \in 1..Len(s) :
          \/ s[i] = t[i]
          \/ {s[i], t[i]} = {"a", "A"}
          \/ {s[i], t[i]} = {"b", "B"}

\* the existing posts whose caption spells tag in some letter case
Spellers(tag) ==
    { p \in DOMAIN posts :
        \E spelt \in Range(HashtagFindall(posts[p].caption)) :
            SameIgnoringCase(spelt, tag) }

\* C18: tags that captions spell in different letter cases are indexed under
\* one lowercase tag: no key of the index and no trending entry has an
\* uppercase letter, the count of a trending entry is the number of existing
\* posts spelling its tag in any case, and explore_by_hashtag given the tag in
\* any case returns those posts.
CaseConsolidation ==
    /\ \A t \in DOMAIN hashtag_posts :
          \A i \in 1..Len(t) : t[i] \notin {"A", "B"}
    /\ \A entry \in Range(explore_trending_body) :
          /\ \A k \in 1..Len(entry.tag) : entry.tag[k] \notin {"A", "B"}
          /\ entry.count = Cardinality(Spellers(entry.tag))
    /\ \A q \in ExploreTags : \A body \in explore_by_hashtag_bodies(q) :
          { body[i].id : i \in 1..Len(body) } = Spellers(q)

\* trending is asked while two posts spell one tag in different cases
CaseConsolidationWitness ==
    /\ last.op = "explore_trending"
    /\ \E i \in 1..Len(explore_trending_body) :
          /\ explore_trending_body[i].tag = <<"a", "b">>
          /\ explore_trending_body[i].count = 2
    /\ \E p \in DOMAIN posts : posts[p].caption = MixedCaseCaption
    /\ \E p \in DOMAIN posts : posts[p].caption = MoreTagsCaption

\* C19 as the specification words it: creating a post whose caption holds one
\* tag in three letter cases yields a trending entry for the lowercase tag
\* with count 3, and explore_by_hashtag with the uppercase tag returns the
\* post.
RoundTripCountsThree ==
    (/\ last.op = "create_post" /\ last.status = 201
     /\ posts[last.pid].caption = MixedCaseCaption
     /\ Carriers(<<"a", "b">>) = {last.pid})
    => /\ \E entry \in Range(explore_trending_body) :
             entry.tag = <<"a", "b">> /\ entry.count = 3
       /\ \A body \in explore_by_hashtag_bodies(<<"A", "B">>) :
             \E i \in 1..Len(body) : body[i].id = last.pid

\* the tags that explore_trending ranks before tag: those with existing
\* posts that more posts carry, or as many and that were indexed first
TagsAhead(tag) ==
    LET Place(t) == CHOOSE i \in 1..Len(hashtag_order) : hashtag_order[i] = t
    IN { t \in UNION { Range(posts[p].hashtags) : p \in DOMAIN posts } :
           /\ t # tag
           /\ \/ Cardinality(Carriers(t)) > Cardinality(Carriers(tag))
              \/ /\ Cardinality(Carriers(t)) = Cardinality(Carriers(tag))
                 /\ Place(t) < Place(tag) }

\* C19 amended: creating a post whose caption holds one tag in three letter
\* cases, no other post carrying the tag, gives the lowercase tag the count 1:
\* trending has an entry for it exactly when fewer than ten tags are ranked
\* before it, that entry is the only one for the tag and has count 1, and
\* explore_by_hashtag with the uppercase tag returns the post.
RoundTripCountsOnce ==
    (/\ last.op = "create_post" /\ last.status = 201
     /\ posts[last.pid].caption = MixedCaseCaption
     /\ Carriers(<<"a", "b">>) = {last.pid})
    => /\ (\E entry \in Range(explore_trending_body) :
              entry.tag = <<"a", "b">>)
             <=> Cardinality(TagsAhead(<<"a", "b">>)) < TrendingLimit
       /\ \A i \in 1..Len(explore_trending_body) :
             explore_trending_body[i].tag = <<"a", "b">>
             => /\ explore_trending_body[i].count = 1
                /\ \A j \in 1..Len(explore_trending_body) :
                      explore_trending_body[j].tag = <<"a", "b">> => j = i
       /\ \A body \in explore_by_hashtag_bodies(<<"A", "B">>) :
             \E i \in 1..Len(body) : body[i].id = last.pid

\* the post with the three spellings has just been created beside a post
\* with ten other tags: the tag is ranked eleventh and trending leaves it out
RoundTripWitness ==
    /\ last.op = "create_post" /\ last.status = 201
    /\ posts[last.pid].caption = MixedCaseCaption
    /\ posts[last.pid].hashtags = << <<"a", "b">>, <<"a", "b">>, <<"a", "b">> >>
    /\ Carriers(<<"a", "b">>) = {last.pid}
    /\ Cardinality(DOMAIN posts) = 2
    /\ Cardinality(TagsAhead(<<"a", "b">>)) = TrendingLimit
    /\ Len(explore_trending_body) = TrendingLimit

\* C20: explore_by_hashtag returns exactly the existing posts whose hashtag
\* list contains the lowercased tag, each once, a post with a later creation
\* timestamp before a post with an earlier one; it answers 200 always, with
\* the empty list for a tag no existing post carries.
ExploreByTag ==
    /\ last.op = "explore_by_hashtag" => last.status = 200
    /\ \A q \in ExploreTags : \A body \in explore_by_hashtag_bodies(q) :
          \A due \in {Carriers(Lower(q))} :
              /\ { body[i].id : i \in 1..Len(body) } = due
              /\ Len(body) = Cardinality(due)
              /\ \A i \in 1..Len(body) : \A j \in 1..Len(body) :
                    i < j => body[i].created_at >= body[j].created_at
              /\ due = {} => body = << >>

\* explore_by_hashtag is asked while the uppercase tag finds two posts created
\* at different times and another tag finds none though posts exist
ExploreByTagWitness ==
    /\ last.op = "explore_by_hashtag"
    /\ \E body \in explore_by_hashtag_bodies(<<"A", "B">>) :
          /\ Len(body) = 2
          /\ body[1].created_at > body[2].created_at
    /\ explore_by_hashtag_bodies(<<"c">>) = { << >> }

\* the like_count get_post returns for post p
LikeCountOf(p) == get_post_body(p).like_count

\* C21: the like_count of an existing post is the number of users whose
\* last successful like of it has no successful unlike after it; it is 0 when
\* the post is created, one more after a successful like and one less after a
\* successful unlike.
LikeCountDerivation ==
    /\ [](\A p \in DOMAIN posts :
            LikeCountOf(p) = Cardinality({ u \in UserIds : <<u, p>> \in liked }))
    /\ [][\A p \in PostIds :
            /\ (last'.op = "create_post" /\ last'.status = 201 /\ last'.pid = p)
                 => LikeCountOf(p)' = 0
            /\ (last'.op = "like_post" /\ last'.status = 201 /\ last'.pid = p)
                 => LikeCountOf(p)' = LikeCountOf(p) + 1
            /\ (last'.op = "unlike_post" /\ last'.status = 200 /\ last'.pid = p)
                 => LikeCountOf(p)' = LikeCountOf(p) - 1]_vars

\* a post has been liked by two users and unliked by one: its like_count is 1
LikeCountWitness ==
    /\ last.op = "unlike_post" /\ last.status = 200
    /\ LikeCountOf(last.pid) = 1
    /\ \E u \in UserIds : u # last.uid /\ <<u, last.pid>> \in liked

\* the comment_count get_post returns for post p
CommentCountOf(p) == get_post_body(p).comment_count

\* C22: the comment_count of an existing post is the number of stored
\* comments whose parent it is and the length of the list get_comments
\* returns; it is 0 when the post is created, one more after a comment is
\* added and one less after a comment is deleted, so adding then deleting a
\* comment gives the count it had.
CommentCountDerivation ==
    /\ [](\A p \in DOMAIN posts :
            /\ CommentCountOf(p)
                 = Cardinality({ c \in DOMAIN comments : comments[c].post_id = p })
            /\ CommentCountOf(p) = Len(get_comments_body(p)))
    /\ [][\A p \in PostIds :
            /\ (last'.op = "create_post" /\ last'.status = 201 /\ last'.pid = p)
                 => CommentCountOf(p)' = 0
            /\ (last'.op = "add_comment" /\ last'.status = 201 /\ last'.pid = p)
                 => CommentCountOf(p)' = CommentCountOf(p) + 1
            /\ (last'.op = "delete_comment" /\ last'.status = 200
                 /\ last'.pid = p)
                 => CommentCountOf(p)' = CommentCountOf(p) - 1]_vars

\* a comment of a post that has another comment has just been deleted
CommentCountWitness ==
    /\ last.op = "delete_comment" /\ last.status = 200
    /\ last.pid \in DOMAIN posts
    /\ CommentCountOf(last.pid) = 1

\* C23: delete_comment(c) on a stored comment removes c from comments and
\* from the list of its parent post, leaves every other comment as it was,
\* the other comments of the post in their order and the lists of the other
\* posts alone; delete_comment on an id that is not stored (deleted before,
\* or never handed out) answers 404 and changes nothing.
DeleteComment ==
    [][\A c \in CommentIds :
         (last'.op = "delete_comment" /\ last'.cid = c)
         => IF c \in DOMAIN comments
            THEN /\ last'.status = 200
                 /\ DOMAIN comments' = DOMAIN comments \ {c}
                 /\ \A d \in DOMAIN comments' : comments'[d] = comments[d]
                 /\ DOMAIN post_comments' = DOMAIN post_comments
                 /\ \A p \in DOMAIN post_comments :
                       post_comments'[p]
                         = SelectSeq(post_comments[p], LAMBDA d : d # c)
                 /\ c \in Range(post_comments[comments[c].post_id])
            ELSE /\ last'.status = 404
                 /\ store' = store]_vars

\* the second of three comments of a post has just been deleted
DeleteCommentWitness ==
    /\ last.op = "delete_comment" /\ last.status = 200
    /\ last.pid \in DOMAIN post_comments
    /\ Len(post_comments[last.pid]) = 2
    /\ post_comments[last.pid][1] < last.cid
    /\ last.cid < post_comments[last.pid][2]

\* a text of whitespace only, the empty text included
Blank(text) == \A i \in 1..Len(text) : text[i] = " "

\* C28: add_comment is rejected as invalid (422) when the text is empty or
\* whitespace only, and otherwise fails with 404 when the post or the user
\* does not exist; in each of these cases no comment is stored and no comment
\* list changes.  (The text is validated before the handler looks up the post
\* and the user.)
CommentPreconditions ==
    [][\A p \in PostIds : \A u \in UserIds : \A t \in Texts :
         add_comment(p, u, t)
         => /\ Blank(t) => last'.status = 422
            /\ (~Blank(t) /\ (p \notin DOMAIN posts \/ u \notin DOMAIN users))
                 => last'.status = 404
            /\ (Blank(t) \/ p \notin DOMAIN posts \/ u \notin DOMAIN users)
                 => /\ comments' = comments
                    /\ post_comments' = post_comments
                    /\ nextCid' = nextCid]_vars

\* a comment by a user that does not exist on a post that has a comment has
\* just been refused
CommentPreconditionsWitness ==
    /\ last.op = "add_comment" /\ last.status = 404
    /\ last.pid \in DOMAIN posts /\ last.uid \notin DOMAIN users
    /\ post_comments[last.pid] # << >>

\* C30 as the specification words it: after delete_post succeeded on a post
\* that had comments, get_comments of that post answers 200 with the empty
\* list.
ListCommentsAfterCascadeEmpty ==
    [][\A p \in PostIds :
         (/\ last'.op = "delete_post" /\ last'.status = 200 /\ last'.pid = p
          /\ Get(post_comments, p, << >>) # << >>)
         => /\ get_comments_status(p)' = 200
            /\ get_comments_body(p)' = << >>]_vars

\* C30 amended: after delete_post succeeded on a post, with comments or
\* without, get_comments of that post answers 404; none of the comments it
\* had is stored any more.
ListCommentsAfterCascade ==
    /\ [][\A p \in PostIds :
            (/\ last'.op = "delete_post" /\ last'.status = 200 /\ last'.pid = p
             /\ Get(post_comments, p, << >>) # << >>)
            => /\ get_comments_status(p)' = 404
               /\ \A c \in Range(post_comments[p]) : c \notin DOMAIN comments']_vars
    /\ []((last.op = "get_comments" /\ last.pid \notin DOMAIN posts)
            => last.status = 404)

\* get_comments of the only post deleted so far has just been answered, and
\* a comment is gone: it was a comment of that post
ListCommentsAfterCascadeWitness ==
    /\ last.op = "get_comments" /\ last.status = 404
    /\ last.pid < nextPid
    /\ \A q \in 1..(nextPid - 1) : q # last.pid => q \in DOMAIN posts
    /\ \E c \in 1..(nextCid - 1) : c \notin DOMAIN comments

\* the fields update_user can write
UpdatableFields == {"display_name", "bio", "profile_pic_url"}

\* C24: update_user on an existing user overwrites exactly the fields among
\* display_name, bio and profile_pic_url that the request carries (not None)
\* and leaves the other fields, the id, the username and created_at, every
\* other user and every other collection unchanged; on an id that is not a
\* user it answers 404 and changes nothing.
PartialUserUpdate ==
    [][\A u \in UserIds : \A payload \in ProfileUpdates :
         update_user(u, payload)
         => IF u \in DOMAIN users
            THEN /\ last'.status = 200
                 /\ DOMAIN users' = DOMAIN users
                 /\ \A f \in UpdatableFields :
                       users'[u][f] = IF payload[f] # None THEN payload[f]
                                      ELSE users[u][f]
                 /\ users'[u].id = users[u].id
                 /\ users'[u].username = users[u].username
                 /\ users'[u].created_at = users[u].created_at
                 /\ \A v \in DOMAIN users : v # u => users'[v] = users[v]
                 /\ UNCHANGED <<posts, follows, followers, likes, comments,
                                post_comments, hashtag_posts, hashtag_order>>
            ELSE /\ last'.status = 404
                 /\ store' = store]_vars

\* a user who follows somebody has had the bio and, in another request, the
\* display name and the picture updated: each update kept the other's fields
PartialUserUpdateWitness ==
    /\ last.op = "update_user" /\ last.status = 200
    /\ users[last.uid].bio = "bio"
    /\ users[last.uid].display_name = "B"
    /\ users[last.uid].profile_pic_url = "pic"
    /\ follows[last.uid] # {}

\* C25: the profile of user u reports as follower_count the number of users
\* a with u in follows[a], as following_count the number of users b with u
\* in followers[b], and as post_count the number of existing posts of u; all
\* three are 0 for a user just created, and post_count is one less after one
\* of the user's posts is deleted.
ProfileCounts ==
    /\ [](\A u \in DOMAIN users :
            /\ get_user_body(u).follower_count
                 = Cardinality({ a \in DOMAIN users : u \in follows[a] })
            /\ get_user_body(u).following_count
                 = Cardinality({ b \in DOMAIN users : u \in followers[b] })
            /\ get_user_body(u).post_count
                 = Cardinality({ p \in DOMAIN posts : posts[p].user_id = u }))
    /\ []((last.op = "create_user" /\ last.status = 201)
            => /\ get_user_body(last.uid).follower_count = 0
               /\ get_user_body(last.uid).following_count = 0
               /\ get_user_body(last.uid).post_count = 0)
    /\ [][\A p \in DOMAIN posts : \A u \in DOMAIN users :
            (/\ last'.op = "delete_post" /\ last'.status = 200
             /\ last'.pid = p /\ posts[p].user_id = u)
            => get_user_body(u)'.post_count = get_user_body(u).post_count - 1]_vars

\* the profile of a user who is followed, follows nobody and has one post
\* left after a delete has just been returned
ProfileCountsWitness ==
    /\ last.op = "get_user" /\ last.status = 200
    /\ get_user_body(last.uid).follower_count = 1
    /\ get_user_body(last.uid).following_count = 0
    /\ get_user_body(last.uid).post_count = 1
    /\ Cardinality(DOMAIN posts) = 1 /\ nextPid = 3

\* C26: follow_user(a, b) answers 400 when a = b, and 404 when a differs
\* from b and one of them is not a user (the self-follow check comes first);
\* neither case changes a follow index.  So no user is ever in their own
\* following or followers set, and every member of such a set is a user.
FollowPreconditions ==
    /\ [][\A a \in UserIds : \A b \in UserIds :
            follow_user(a, b)
            => /\ a = b => last'.status = 400
               /\ (a # b /\ (a \notin DOMAIN users \/ b \notin DOMAIN users))
                    => last'.status = 404
               /\ (a = b \/ a \notin DOMAIN users \/ b \notin DOMAIN users)
                    => follows' = follows /\ followers' = followers]_vars
    /\ [](/\ \A u \in DOMAIN follows :
                u \notin follows[u] /\ follows[u] \subseteq DOMAIN users
           /\ \A v \in DOMAIN followers :
                v \notin followers[v] /\ followers[v] \subseteq DOMAIN users)

\* a user who is followed has just been refused a follow of themselves
FollowPreconditionsWitness ==
    /\ last.op = "follow_user" /\ last.status = 400
    /\ last.uid = last.tid /\ last.uid \in DOMAIN users
    /\ followers[last.uid] # {}

\* C27: unfollow_user(a, b) while b is not in follows[a], and
\* unlike_post(p, u) while u is not in the like-set of the existing post p
\* (u need not be a user), answer 404 and change nothing.
AbsentEdgeRemoval ==
    [][/\ \A a \in UserIds : \A b \in UserIds :
            (unfollow_user(a, b) /\ b \notin Get(follows, a, {}))
            => last'.status = 404 /\ store' = store
       /\ \A p \in DOMAIN posts : \A u \in UserIds :
            (unlike_post(p, u) /\ u \notin Get(likes, p, {}))
            => last'.status = 404 /\ store' = store]_vars

\* an unlike by an id that is not a user, of a post somebody likes, has just
\* been refused
AbsentEdgeRemovalWitness ==
    /\ last.op = "unlike_post" /\ last.status = 404
    /\ last.pid \in DOMAIN posts /\ last.uid \notin DOMAIN users
    /\ likes[last.pid] # {}

\* C29: for a limit L from 1 to 100, explore_recent returns min(L, number of
\* existing posts) posts, each once, a post with a later creation timestamp
\* before a post with an earlier one, and no post left out has a later
\* creation timestamp than a post returned.
ExploreRecent ==
    \A L \in { l \in Limits : 1 <= l /\ l <= 100 } :
        \A body \in {explore_recent_body(L)} :
            /\ Len(body) = IF L < Cardinality(DOMAIN posts) THEN L
                            ELSE Cardinality(DOMAIN posts)
            /\ \A i \in 1..Len(body) :
                  /\ body[i].id \in DOMAIN posts
                  /\ body[i] = get_post_body(body[i].id)
            /\ \A i \in 1..Len(body) : \A j \in 1..Len(body) :
                  /\ i # j => body[i].id # body[j].id
                  /\ i < j => body[i].created_at >= body[j].created_at
            /\ \A p \in DOMAIN posts :
                  p \notin { body[i].id : i \in 1..Len(body) }
                  => \A i \in 1..Len(body) :
                        posts[p].created_at <= body[i].created_at

\* explore_recent has just answered while there are two posts of different
\* timestamps: a limit of 1 returns the newer one alone
ExploreRecentWitness ==
    /\ last.op = "explore_recent" /\ last.status = 200
    /\ Cardinality(DOMAIN posts) = 2
    /\ Len(explore_recent_body(1)) = 1
    /\ \E p \in DOMAIN posts :
          posts[p].created_at < explore_recent_body(1)[1].created_at

\* C36: in every state between two requests every post's author is a stored
\* user, every comment's author is a stored user and its parent a stored
\* post, and every like-set belongs to a stored post and holds stored users
\* only; create_post (with a valid payload) for an unknown user and like_post
\* for an unknown post or user answer 404 and store nothing.
ReferentialIntegrity ==
    /\ [](/\ \A p \in DOMAIN posts : posts[p].user_id \in DOMAIN users
          /\ \A c \in DOMAIN comments :
                /\ comments[c].user_id \in DOMAIN users
                /\ comments[c].post_id \in DOMAIN posts
          /\ \A p \in DOMAIN likes :
                /\ p \in DOMAIN posts
                /\ likes[p] \subseteq DOMAIN users)
    /\ [][/\ \A u \in UserIds, m \in MediaUrls, t \in MediaTypes, c \in OneCaption :
              (create_post(u, m, t, c) /\ PostCreateValid(m, t)
                                       /\ u \notin DOMAIN users)
              => last'.status = 404 /\ store' = store
          /\ \A p \in PostIds, u \in UserIds :
              (like_post(p, u) /\ (p \notin DOMAIN posts \/ u \notin DOMAIN users))
              => last'.status = 404 /\ store' = store]_vars

\* a like naming an unknown user has just been refused while a post with a
\* like and a comment is stored
ReferentialIntegrityWitness ==
    /\ last.op = "like_post" /\ last.status = 404
    /\ last.pid \in DOMAIN posts /\ last.uid \notin DOMAIN users
    /\ likes[last.pid] # {}
    /\ \E c \in DOMAIN comments : comments[c].post_id = last.pid

\* the store with b taken out of follows[a] and a out of followers[b]
WithoutEdge(a, b) ==
    <<users, posts, [follows EXCEPT ![a] = @ \ {b}],
      [followers EXCEPT ![b] = @ \ {a}], likes, comments, post_comments,
      hashtag_posts, hashtag_order>>

\* the store with u taken out of the like-set of p
WithoutLike(u, p) ==
    <<users, posts, follows, followers, [likes EXCEPT ![p] = @ \ {u}],
      comments, post_comments, hashtag_posts, hashtag_order>>

\* C37: a successful follow_user(a, b) leaves a store from which removing the
\* edge gives back the store before it, keys included, and a successful
\* unfollow_user(a, b) leaves exactly the store with the edge removed; the
\* same for like_post(p, u) and unlike_post(p, u).  Hence follow then
\* unfollow, and like then unlike, return every collection to its value
\* before the pair.
EdgeRoundTrip ==
    [][/\ \A a \in UserIds, b \in UserIds :
            /\ (follow_user(a, b) /\ last'.status = 201)
                => /\ b \in follows'[a]
                   /\ WithoutEdge(a, b)' = store
            /\ (unfollow_user(a, b) /\ last'.status = 200)
                => store' = WithoutEdge(a, b)
       /\ \A p \in PostIds, u \in UserIds :
            /\ (like_post(p, u) /\ last'.status = 201)
                => /\ u \in likes'[p]
                   /\ WithoutLike(u, p)' = store
            /\ (unlike_post(p, u) /\ last'.status = 200)
                => store' = WithoutLike(u, p)]_vars

\* the only follow edge has just been removed again: both indexes keep the
\* keys of both users, with empty sets
EdgeRoundTripWitness ==
    /\ last.op = "unfollow_user" /\ last.status = 200
    /\ followed = {}
    /\ DOMAIN follows = DOMAIN users /\ DOMAIN followers = DOMAIN users
    /\ \A u \in DOMAIN users : follows[u] = {} /\ followers[u] = {}

\* C38: delete_post(p) changes no user and neither follow index, and for
\* every other post q it changes neither q, nor the like-set of q, nor the
\* comment list of q, nor a comment of q, nor whether q is in the post-set of
\* a tag; it adds no post, like-set, comment list, comment or tag.
DeletePostFrame ==
    [][\A p \in PostIds :
         delete_post(p)
         => /\ users' = users /\ follows' = follows /\ followers' = followers
            /\ DOMAIN posts' = DOMAIN posts \ {p}
            /\ DOMAIN likes' = DOMAIN likes \ {p}
            /\ DOMAIN post_comments' = DOMAIN post_comments \ {p}
            /\ DOMAIN hashtag_posts' = DOMAIN hashtag_posts
            /\ \A q \in DOMAIN posts \ {p} :
                  /\ posts'[q] = posts[q]
                  /\ likes'[q] = likes[q]
                  /\ post_comments'[q] = post_comments[q]
                  /\ \A t \in DOMAIN hashtag_posts :
                        q \in hashtag_posts'[t] <=> q \in hashtag_posts[t]
            /\ \A c \in DOMAIN comments :
                  comments[c].post_id # p
                  => c \in DOMAIN comments' /\ comments'[c] = comments[c]
            /\ DOMAIN comments' \subseteq DOMAIN comments]_vars

\* a post with a like and a comment has just been deleted while another post
\* under the same tags, with a like and a comment of its own, stays
DeletePostFrameWitness ==
    /\ last.op = "delete_post" /\ last.status = 200
    /\ \E q \in DOMAIN posts :
          /\ q # last.pid
          /\ likes[q] # {}
          /\ post_comments[q] # << >>
          /\ \E t \in DOMAIN hashtag_posts : q \in hashtag_posts[t]

\* C39: the hashtag list of a post holds the lowercase form of every tag
\* occurrence of its caption, in caption order, so a tag the caption holds k
\* times (in any letter cases) is stored k times; the post is in the
\* post-set of each of its tags and every list explore_by_hashtag can return
\* for the tag holds the post exactly once; after delete_post the post is in
\* no tag's post-set.
RepeatedTag ==
    /\ [](\A p \in DOMAIN posts :
            \A found \in {HashtagFindall(posts[p].caption)} :
            \A hashtags \in {posts[p].hashtags} :
              /\ Len(hashtags) = Len(found)
              /\ \A i \in 1..Len(found) : hashtags[i] = Lower(found[i])
              /\ \A tag \in Range(hashtags) :
                    /\ Cardinality({ i \in 1..Len(hashtags) : hashtags[i] = tag })
                         = Cardinality({ i \in 1..Len(found) :
                                           SameIgnoringCase(found[i], tag) })
                    /\ p \in hashtag_posts[tag]
                    /\ \A body \in explore_by_hashtag_bodies(tag) :
                          Cardinality({ i \in 1..Len(body) : body[i].id = p }) = 1)
    /\ [][\A p \in PostIds :
            (delete_post(p) /\ last'.status = 200)
            => \A t \in DOMAIN hashtag_posts' : p \notin hashtag_posts'[t]]_vars

\* explore_by_hashtag has just answered while a post whose caption spells one
\* tag three times is stored with the tag three times in its list
RepeatedTagWitness ==
    /\ last.op = "explore_by_hashtag" /\ last.status = 200
    /\ \E p \in DOMAIN posts :
          /\ posts[p].caption = MixedCaseCaption
          /\ posts[p].hashtags = << <<"a", "b">>, <<"a", "b">>, <<"a", "b">> >>
          /\ hashtag_posts[<<"a", "b">>] = {p}

\* C34: when two create_user requests with the same username are served by
\* two threads, at most one of them answers 201 and the user store never
\* holds two users with that username.
HandleCheckThenInsert ==
    /\ \A u1 \in DOMAIN users, u2 \in DOMAIN users :
          u1 # u2 => users[u1].username # users[u2].username
    /\ \A w \in Workers, v \in Workers :
          (/\ w # v
           /\ At(w, "create_user", "done") /\ At(v, "create_user", "done")
           /\ workers[w].name = workers[v].name)
          => ~(workers[w].status = 201 /\ workers[v].status = 201)

\* C32: whenever a thread serving get_followers or get_following reads the
\* follow indexes (a next() of its loop over the set, or a count taken by
\* _build_user_out), b is in follows[a] exactly when a is in followers[b],
\* for all users a and b: no listing reads the indexes between the two
\* writes of a follow_user or unfollow_user run by another thread.
DualWriteUnobserved ==
    [][(\E w \in Workers :
           \/ get_followers_next(w)
           \/ get_following_next(w)
           \/ build_user_followers_len(w)
           \/ build_user_follows_len(w))
       => \A a \in UserIds, b \in UserIds :
             b \in Get(follows, a, {}) <=> a \in Get(followers, b, {})]_vars

\* some index entry of post p is missing: its like-set, its comment list, or
\* p in the post-set of one of its tags
MidCascade(p) ==
    \/ p \notin DOMAIN likes
    \/ p \notin DOMAIN post_comments
    \/ \E t \in Range(posts[p].hashtags) : p \notin Get(hashtag_posts, t, {})

\* C31: once a thread serving delete_post(p) has removed an index entry of p
\* (a tag entry, the comment list or the like-set), the lookup of a thread
\* serving get_post(p) fails with 404.
DeleteHidesFirst ==
    [][\A w \in Workers, v \in Workers :
          (/\ get_post_lookup(w)
           /\ workers[v].op = "delete_post" /\ ~Done(v)
           /\ workers[v].pid = workers[w].pid
           /\ workers[w].pid \in DOMAIN posts => MidCascade(workers[w].pid))
          => Done(w)' /\ workers'[w].status = 404]_vars

\* C33: when the lookup of a thread serving get_post finds a post, the post
\* has its like-set, its comment list and its entry in the post-set of each
\* of its tags.
CreateAllOrNothing ==
    [][\A w \in Workers :
          (get_post_lookup(w) /\ workers[w].pid \in DOMAIN posts)
          => ~MidCascade(workers[w].pid)]_vars

\* C35: every request a thread has finished serving ended in success or in
\* one of 400, 404, 409 and 422, never in an exception that is not handled;
\* so do two delete_post of one post, two delete_comment of one comment, and
\* a delete_comment beside the delete_post of the comment's post.
OnlyTypedFailures ==
    \A w \in Workers :
        Done(w) => workers[w].status \in {200, 201, 400, 404, 409, 422}

\* C40: once the threads have finished serving a delete_post beside a
\* like_post or an add_comment of the same post, no like-set, no comment list
\* and no stored comment refers to a post that is not stored.
NoOrphanAfterRace ==
    (\A w \in Workers : workers[w].op = "idle" \/ Done(w))
    => /\ DOMAIN likes \subseteq DOMAIN posts
       /\ DOMAIN post_comments \subseteq DOMAIN posts
       /\ \A c \in DOMAIN comments : comments[c].post_id \in DOMAIN posts

====
